---- MODULE Spec2Model ----
(***************************************************************************)
(* State-machine model of the package-integrity engine of razulibs:        *)
(* the preservation event log (razu/events.py), the checksum manifest      *)
(* (razu/manifest.py), the metadata resource (razu/meta_resource.py) and   *)
(* the Sip that orchestrates them (razu/sip.py).                           *)
(*                                                                         *)
(* The package directory is modelled by four variables: the metadata       *)
(* files, the referenced (binary) files, the manifest file and the         *)
(* event-log file.  One Sip (or one bare Events object) is alive at a      *)
(* time; closing it drops the in-memory state and keeps the directory.     *)
(* Timestamps (datetime.now) are left out of the event triples and of the  *)
(* manifest entries; everything else an operation writes is modelled.      *)
(***************************************************************************)
EXTENDS Integers, Sequences, FiniteSets, TLC

VARIABLES
    meta_files,          \* directory: metadata filename -> serialized resource graph
    data_files,          \* directory: referenced filename -> file bytes
    manifest_file,       \* directory: the manifest JSON file
    eventlog_file,       \* directory: the event-log JSON-LD file
    counter,             \* MetaResource._counter.current_number (class level)
    pc,                  \* "none": no object alive, "sip": a Sip, "log": an Events
                         \* object alone, "index": an Events and a Manifest object
    resources_directory, \* Sip.resources_directory is set (TRUE) or None (FALSE)
    order,               \* insertion order of the keys of Sip.meta_resources
    meta_resources,      \* Sip.meta_resources: id -> resource
    manifest,            \* Sip.manifest
    log,                 \* Sip.log_event / the Events object
    opened,              \* how many times the directory has been opened so far
    last,                \* the last call: its name, how it ended, what it wrote
    objects              \* the objects beside the package: the IDManager, the
                         \* Config class with its instance, the ConceptResolver
                         \* class with its instances and their Concepts, the
                         \* list of file names to ignore that a caller keeps

vars == <<meta_files, data_files, manifest_file, eventlog_file, counter, pc,
          resources_directory, order, meta_resources, manifest, log, opened, last, objects>>

disk == <<meta_files, data_files, manifest_file, eventlog_file>>

----------------------------------------------------------------------------
(* Bounds of the model *)

MaxEvents == 3     \* a Sip makes no call that would push current_id above this
MaxLogEvents == 2  \* the same for an event log that is used without a Sip
MaxQueue == 1      \* longest deferred-event queue
MaxVersion == 1    \* how often one resource's graph is changed after creation
MaxCounter == 1    \* largest id taken from the class-level counter
MaxOpens == 2      \* how many times the package directory is opened
MaxLongQueue == 2  \* longest queue of a Sip that only queues and processes
MaxId == 3         \* largest id an IDManager is asked for or hands out
MaxConfigs == 3    \* how many Config objects are constructed
MaxQueries == 3    \* how many queries are sent to the SPARQL endpoint
MaxIgnore == 3     \* longest list of file names to ignore that a caller holds

----------------------------------------------------------------------------
(* Small helpers *)

Max(S) == IF S = {} THEN 0 ELSE CHOOSE m \in S : \A n \in S : n <= m

Range(s) == {s[i] : i \in 1..Len(s)}

EmptyMap == [x \in {} |-> x]

Put(f, k, v) == [x \in (DOMAIN f) \cup {k} |-> IF x = k THEN v ELSE f[x]]

----------------------------------------------------------------------------
(* Python values handed to the event methods.  v is always a set of        *)
(* strings so that values of different Python types stay comparable.       *)

PyStr(s) == [t |-> "str", v |-> {s}]
PyBool(b) == [t |-> "bool", v |-> {IF b THEN "True" ELSE "False"}]
PyList(S) == [t |-> "list", v |-> S]
PyFunc(name) == [t |-> "func", v |-> {name}]

\* callable(x)
callable(x) == x.t = "func"

\* bool(x): Python truthiness
Truthy(x) ==
    CASE x.t = "bool" -> x.v = {"True"}
      [] x.t = "list" -> x.v # {}
      [] OTHER -> TRUE

\* rdflib URIRef(x) is str(x): the text of a string, "True"/"False" of a bool,
\* the repr of anything else.
URIRef(x) ==
    CASE x.t \in {"str", "bool"} -> CHOOSE s \in x.v : TRUE
      [] x.t = "func" -> "<function>"
      [] OTHER -> "<list>"

\* `[URIRef(s) for s in subject] if isinstance(subject, list) else URIRef(subject)`
subject_value(subject) ==
    IF subject.t = "list" THEN subject.v ELSE {URIRef(subject)}

----------------------------------------------------------------------------
(* Identifiers of the package *)

Ids == {"1", "2"}
CounterIds == {ToString(n) : n \in 0..MaxCounter}
AllIds == Ids \cup CounterIds
Sources == {"source/a"}

make_filename_from_id(id) == "NL-" \o id \o ".meta.json"
referenced_file_filename(id) == "NL-" \o id \o ".bin"
referenced_file_original_filename(id) == "orig-" \o id \o ".bin"
description_uri(id) == "object/NL-" \o id
referenced_file_uri(id) == "cdn/NL-" \o id \o ".bin"
manifest_filename == "NL.manifest.json"
eventlog_filename == "NL.eventlog.json"

event_uri(n) == [kind |-> "event", id |-> n]

\* the ids the package is created with.  The prefix NL of the file names
\* above stands for <razu_file_id>-<archive_creator_id>-<archive_id>: a
\* metadata file is NL-WbDRAZU-G0321-661-1.meta.json, the manifest
\* NL-WbDRAZU-G0321-661.manifest.json.
archive_creator_id == "G0321"
archive_id == "661"

----------------------------------------------------------------------------
(* File names as text: razu/util.py, razu/razuconfig.py.  A text is a      *)
(* sequence of symbols; a symbol is "-", ".", "/" or a run of characters    *)
(* that holds none of the three.  Positions count from 0 as in Python.      *)

Min(S) == CHOOSE m \in S : \A n \in S : m <= n

\* the text as one string
RECURSIVE join(_)
join(text) == IF text = <<>> THEN "" ELSE Head(text) \o join(Tail(text))

\* str.find(sub, start): the first position from start on where sub begins, or -1
find(text, sub, start) ==
    LET hits == {i \in start..(Len(text) - Len(sub)) : SubSeq(text, i + 1, i + Len(sub)) = sub}
    IN  IF hits = {} THEN -1 ELSE Min(hits)

\* text[from:to]
slice(text, from, to) == SubSeq(text, from + 1, to)

\* RazuConfig: razu_file_id, metadata_suffix, metadata_extension
razu_file_id == <<"NL", "-", "WbDRAZU">>
metadata_suffix == <<"meta">>
metadata_extension == <<"json">>

\* a configuration: the creator and the archive of a package
Cfg(creator, archive) == [archive_creator_id |-> creator, archive_id |-> archive]

\* RazuConfig.filename_prefix
filename_prefix(cfg) ==
    razu_file_id \o <<"-", cfg.archive_creator_id, "-", cfg.archive_id>>

\* Identifiers.make_filename_from_id as text: {uid}.{metadata_suffix}.{metadata_extension}
make_filename_text(cfg, id) ==
    filename_prefix(cfg) \o <<"-", id, ".">> \o metadata_suffix \o <<".">> \o metadata_extension

\* the text of a file name of the package
spelled(filename) ==
    LET cfg == Cfg(archive_creator_id, archive_id)
    IN  CASE filename = manifest_filename -> filename_prefix(cfg) \o <<".", "manifest", ".", "json">>
          [] filename = eventlog_filename -> filename_prefix(cfg) \o <<".", "eventlog", ".", "json">>
          [] \E id \in AllIds : filename = make_filename_from_id(id) ->
                make_filename_text(cfg, CHOOSE id \in AllIds : filename = make_filename_from_id(id))
          [] OTHER ->
                filename_prefix(cfg)
                \o <<"-", CHOOSE id \in AllIds : filename = referenced_file_filename(id), ".", "bin">>

ValueError == [res |-> "value_error", value |-> <<>>]
Returns(text) == [res |-> "ok", value |-> text]

\* the loop of extract_part_from_filename: one "-" further for every part
\* before the wanted one; 0 when no "-" is left
RECURSIVE skip_parts(_, _, _)
skip_parts(filename, start_index, n) ==
    IF n = 0
    THEN start_index
    ELSE LET next == find(filename, <<"-">>, start_index) + 1
         IN  IF next = 0 THEN 0 ELSE skip_parts(filename, next, n - 1)

\* util.extract_part_from_filename: from the start of the part to the next
\* "-", or to the end of the name when no "-" follows
extract_part_from_filename(filename, part_number) ==
    LET found == find(filename, razu_file_id, 0)
        start_index == skip_parts(filename, found + Len(razu_file_id) + 1, part_number - 1)
        end_index == find(filename, <<"-">>, start_index)
    IN  IF found = -1 \/ start_index = 0
        THEN ValueError
        ELSE IF end_index = -1
             THEN Returns(slice(filename, start_index, Len(filename)))
             ELSE Returns(slice(filename, start_index, end_index))

\* util.filename_without_extensions: everything before the first "."
filename_without_extensions(filename) ==
    IF find(filename, <<".">>, 0) = -1
    THEN filename
    ELSE slice(filename, 0, find(filename, <<".">>, 0))

\* os.path.basename
path_basename(path) ==
    LET slashes == {i \in 1..Len(path) : path[i] = "/"}
    IN  IF slashes = {} THEN path ELSE SubSeq(path, Max(slashes) + 1, Len(path))

\* Identifiers.extract_source_id_from_filename, extract_archive_id_from_filename
extract_source_id_from_filename(filename) == extract_part_from_filename(filename, 1)
extract_archive_id_from_filename(filename) == extract_part_from_filename(filename, 2)

\* Identifiers.extract_id_from_filename: the third part without its extensions
extract_id_from_filename(filename) ==
    LET part == extract_part_from_filename(filename, 3)
    IN  IF part.res = "ok" THEN Returns(filename_without_extensions(part.value)) ELSE part

\* Identifiers.extract_id_from_file_path
extract_id_from_file_path(path) == extract_id_from_filename(path_basename(path))

----------------------------------------------------------------------------
(* The event log: razu/events.py *)

NoFile == [exists |-> FALSE, data |-> {}]

\* graph.serialize(format='json-ld') and graph.parse(data=..., format='json-ld'):
\* the file holds the triples of the graph.
serialize(graph) == [format |-> "json-ld", triples |-> graph]
parse(data) == data.triples

\* any(graph.triples((None, premis:eventType, eventType/ine)))
has_ingestion_end(graph) == \E t \in graph : t.p = "eventType" /\ t.o = "ine"

EventIds(graph) == {t.s.id : t \in graph}

EventsOfType(graph, type) == {t.s.id : t \in {u \in graph : u.p = "eventType" /\ u.o = type}}

\* Events.__init__ that looks for ingestion_end only in the last event
Events__init__last_event(file) ==
    LET graph == IF file.exists THEN parse(file.data) ELSE {}
        current_id == Max({0} \cup EventIds(graph))
    IN  [graph |-> graph,
         current_id |-> current_id,
         queue |-> <<>>,
         is_modified |-> FALSE,
         is_locked |-> current_id \in EventsOfType(graph, "ine")]

\* int(util.extract_id_str_from_filepath(s)[1:]): the number n at the end of
\* the event URI "...-e<n>"
extract_id_str_from_filepath(s) == s.id

\* Events.__init__: load the event-log file if it exists; current_id is the
\* largest id among the subjects; is_locked is computed here, once.
Events__init__(file) ==
    LET graph == IF file.exists THEN parse(file.data) ELSE {}
    IN  [graph |-> graph,
         current_id |-> Max({0} \cup {extract_id_str_from_filepath(t.s) : t \in graph}),
         queue |-> <<>>,
         is_modified |-> FALSE,
         is_locked |-> has_ingestion_end(graph)]

\* _next_uri that formats the URI before it increments the counter
_next_uri_stale(lg) ==
    [log |-> [lg EXCEPT !.current_id = @ + 1], uri |-> event_uri(lg.current_id)]

\* Events._next_uri
_next_uri(lg) ==
    [log |-> [lg EXCEPT !.current_id = @ + 1], uri |-> event_uri(lg.current_id + 1)]

\* _add that assigns the new event to the graph (`=` for `+=`)
_add_assigning(lg, properties) ==
    IF lg.is_locked
    THEN [ok |-> FALSE, log |-> lg]
    ELSE LET n == _next_uri(lg)
             all == {[p |-> "rdf:type", o |-> "premis:Event"]} \cup properties
         IN  [ok |-> TRUE,
              log |-> [n.log EXCEPT
                         !.graph = {[s |-> n.uri, p |-> q.p, o |-> q.o] : q \in all},
                         !.is_modified = TRUE]]

\* _add without the test of is_locked
_add_unchecked(lg, properties) ==
    LET n == _next_uri(lg)
        all == {[p |-> "rdf:type", o |-> "premis:Event"]} \cup properties
    IN  [ok |-> TRUE,
         log |-> [n.log EXCEPT
                    !.graph = @ \cup {[s |-> n.uri, p |-> q.p, o |-> q.o] : q \in all},
                    !.is_modified = TRUE]]

\* Events._add: properties is a set of [p, o] pairs.
_add(lg, properties) ==
    IF lg.is_locked
    THEN [ok |-> FALSE, log |-> lg]
    ELSE LET n == _next_uri(lg)
             all == {[p |-> "rdf:type", o |-> "premis:Event"]} \cup properties
         IN  [ok |-> TRUE,
              log |-> [n.log EXCEPT
                         !.graph = @ \cup {[s |-> n.uri, p |-> q.p, o |-> q.o] : q \in all},
                         !.is_modified = TRUE]]

Prop(p, o) == [p |-> p, o |-> o]
PropsOf(p, S) == {Prop(p, o) : o \in S}
Implementer == Prop("erar:imp", "actor/razu")

\* RazuEvents._outcome_uri
_outcome_uri(is_successful) == IF Truthy(is_successful) THEN "suc" ELSE "fail"

filename_change(lg, subject, original_filename, new_filename) ==
    _add(lg, {Prop("eventType", "fil"), Prop("eror:sou", URIRef(subject)), Implementer,
              Prop("outcome", "suc"),
              Prop("outcomeNote", "renamed " \o URIRef(original_filename) \o " to "
                                             \o URIRef(new_filename))})

fixity_check(lg, subject, is_succesful) ==
    _add(lg, {Prop("eventType", "fix"), Prop("eror:sou", URIRef(subject)), Implementer,
              Prop("outcome", _outcome_uri(is_succesful))})

format_identification(lg, subject, format) ==
    _add(lg, {Prop("eventType", "for"), Prop("eror:sou", URIRef(subject)), Implementer,
              Prop("outcome", "suc"), Prop("outcomeNote", URIRef(format))})

ingestion_end(lg, subject) ==
    _add(lg, {Prop("eventType", "ine"), Implementer, Prop("outcome", "suc")}
             \cup PropsOf("eror:sou", subject_value(subject)))

ingestion_start(lg, subject) ==
    _add(lg, {Prop("eventType", "ins"), Implementer, Prop("outcome", "suc")}
             \cup PropsOf("eror:sou", subject_value(subject)))

message_digest_calculation(lg, subject, hash) ==
    _add(lg, {Prop("eventType", "mes"), Prop("eror:sou", URIRef(subject)), Implementer,
              Prop("outcome", "suc"), Prop("outcomeNote", URIRef(hash))})

\* the subject is a list only when it is a Python set, which no caller passes
metadata_modification(lg, subject, result) ==
    _add(lg, {Prop("eventType", "mem"), Prop("eror:sou", URIRef(subject)), Implementer,
              Prop("outcome", "suc"), Prop("prov:generated", URIRef(result))})

\* the outcome is success whatever is_successful says
virus_check(lg, subject, is_successful, note) ==
    _add(lg, {Prop("eventType", "vir"), Implementer, Prop("outcome", "suc"),
              Prop("outcomeNote", URIRef(note))}
             \cup PropsOf("eror:sou", subject_value(subject)))

EventNames == {"filename_change", "fixity_check", "format_identification",
               "ingestion_end", "ingestion_start", "message_digest_calculation",
               "metadata_modification", "virus_check"}

\* getattr(self, event)(*args); getattr raises AttributeError for a name
\* that is no method of the log
CallEvent(lg, event, args) ==
    CASE event = "filename_change" -> filename_change(lg, args[1], args[2], args[3])
      [] event = "fixity_check" -> fixity_check(lg, args[1], args[2])
      [] event = "format_identification" -> format_identification(lg, args[1], args[2])
      [] event = "ingestion_end" -> ingestion_end(lg, args[1])
      [] event = "ingestion_start" -> ingestion_start(lg, args[1])
      [] event = "message_digest_calculation" -> message_digest_calculation(lg, args[1], args[2])
      [] event = "metadata_modification" -> metadata_modification(lg, args[1], args[2])
      [] event = "virus_check" -> virus_check(lg, args[1], args[2], args[3])
      [] OTHER -> [ok |-> FALSE, log |-> lg]

\* Events.to_queue: `[arg if callable(arg) else lambda: arg for arg in args]`.
\* Every lambda closes over the one loop variable of the comprehension, so
\* when it is called later it returns the last element of args.  given
\* keeps the arguments as the caller passed them; no code reads it.
to_queue(lg, event, args) ==
    LET deferred_args ==
            [i \in 1..Len(args) |->
                IF callable(args[i])
                THEN [kind |-> "closure", val |-> args[i]]
                ELSE [kind |-> "lambda", val |-> args[Len(args)]]]
    IN  [lg EXCEPT !.queue = Append(@, [event |-> event, args |-> deferred_args, given |-> args])]

\* Calling a zero-argument closure of the caller at process_queue time.  The
\* one closure the model knows returns the Sip's current all_uris.
CallClosure(f, uris) == PyList(uris)

\* `arg() if callable(arg) else arg` for the stored (always callable) entries
resolved_args(args, uris) ==
    [i \in 1..Len(args) |->
        IF args[i].kind = "closure" THEN CallClosure(args[i].val, uris) ELSE args[i].val]

\* Events.process_queue from queue position i on: a raising call leaves the
\* loop, so the queue is not cleared and the earlier calls stay applied.
RECURSIVE process_queue_from(_, _, _)
process_queue_from(lg, i, uris) ==
    IF i > Len(lg.queue)
    THEN [ok |-> TRUE, log |-> [lg EXCEPT !.queue = <<>>]]
    ELSE LET r == CallEvent(lg, lg.queue[i].event, resolved_args(lg.queue[i].args, uris))
         IN  IF r.ok THEN process_queue_from(r.log, i + 1, uris) ELSE r

\* process_queue that takes the calls from the end of the queue first
process_queue_lifo(lg, uris) ==
    LET n == Len(lg.queue)
        r == process_queue_from([lg EXCEPT !.queue = [i \in 1..n |-> lg.queue[n + 1 - i]]], 1, uris)
    IN  IF r.ok THEN r ELSE [r EXCEPT !.log.queue = lg.queue]

process_queue(lg, uris) == process_queue_from(lg, 1, uris)

\* Events.save: refuses on a locked log; writes only when modified; an
\* IOError is printed and swallowed.
Events_save(lg, file, fault) ==
    IF lg.is_locked
    THEN [res |-> "locked", log |-> lg, file |-> file, wrote |-> FALSE]
    ELSE IF lg.is_modified /\ ~fault
         THEN [res |-> "ok", log |-> [lg EXCEPT !.is_modified = FALSE],
               file |-> [exists |-> TRUE, data |-> serialize(lg.graph)], wrote |-> TRUE]
         ELSE [res |-> "ok", log |-> lg, file |-> file, wrote |-> FALSE]

----------------------------------------------------------------------------
(* Files and checksums: razu/util.py *)

\* the bytes of the original file of a resource in the resources directory
source_bytes(id) == "bytes-of-" \o id

\* util.calculate_md5: a digest of the content (distinct contents, distinct digests)
calculate_md5(content) == "md5(" \o ToString(content) \o ")"

----------------------------------------------------------------------------
(* The metadata resource: razu/meta_resource.py *)

Checksums == {calculate_md5(source_bytes(id)) : id \in AllIds} \cup {"md5(other)"}

\* StructuredMetaResource.__init__: a new resource is modified from the start
StructuredMetaResource__init__ ==
    [is_modified |-> TRUE, version |-> 0, has_referenced_file |-> FALSE,
     checksum |-> "None", metadata_sources |-> {}]

\* the part of a resource that its graph, and so its file, holds
graph_of(r) ==
    [version |-> r.version, has_referenced_file |-> r.has_referenced_file,
     checksum |-> r.checksum]

\* StructuredMetaResource(id) followed by MetaResource.load
MetaResource_load(content) ==
    LET g == parse(content)
    IN  [is_modified |-> FALSE, version |-> g.version,
         has_referenced_file |-> g.has_referenced_file, checksum |-> g.checksum,
         metadata_sources |-> {}]

\* MetaResource.save that writes whether or not the resource is modified
MetaResource_save_always(r, fault) ==
    IF ~fault
    THEN [written |-> TRUE, r |-> [r EXCEPT !.is_modified = FALSE]]
    ELSE [written |-> FALSE, r |-> r]

\* MetaResource.save: writes when modified; an IOError is printed and swallowed
MetaResource_save(r, fault) ==
    IF r.is_modified /\ ~fault
    THEN [written |-> TRUE, r |-> [r EXCEPT !.is_modified = FALSE]]
    ELSE [written |-> FALSE, r |-> r]

----------------------------------------------------------------------------
(* The manifest: razu/manifest.py *)

ManifestEntry(md5hash, md5date, metadata) ==
    [md5hash |-> md5hash, md5date |-> md5date, metadata |-> metadata]

\* ManifestEntry.update that takes the keyword arguments as the new metadata
ManifestEntry_update_replacing(entry, kwargs) ==
    [md5hash |-> IF "md5hash" \in DOMAIN kwargs THEN kwargs["md5hash"] ELSE entry.md5hash,
     md5date |-> IF "md5date" \in DOMAIN kwargs THEN kwargs["md5date"] ELSE entry.md5date,
     metadata |-> [k \in (DOMAIN kwargs) \ {"md5hash", "md5date"} |-> kwargs[k]]]

\* ManifestEntry.update
ManifestEntry_update(entry, kwargs) ==
    [md5hash |-> IF "md5hash" \in DOMAIN kwargs THEN kwargs["md5hash"] ELSE entry.md5hash,
     md5date |-> IF "md5date" \in DOMAIN kwargs THEN kwargs["md5date"] ELSE entry.md5date,
     metadata |-> [k \in (DOMAIN entry.metadata) \cup ((DOMAIN kwargs) \ {"md5hash", "md5date"}) |->
                     IF k \in DOMAIN kwargs THEN kwargs[k] ELSE entry.metadata[k]]]

\* ManifestEntry.to_dict: the metadata keys are laid over MD5Hash and MD5HashDate
to_dict(entry) ==
    [k \in {"MD5Hash", "MD5HashDate"} \cup DOMAIN entry.metadata |->
        IF k \in DOMAIN entry.metadata THEN entry.metadata[k]
        ELSE IF k = "MD5Hash" THEN entry.md5hash ELSE entry.md5date]

\* ManifestEntry.from_dict
from_dict(data) ==
    [md5hash |-> IF "MD5Hash" \in DOMAIN data THEN data["MD5Hash"] ELSE "None",
     md5date |-> IF "MD5HashDate" \in DOMAIN data THEN data["MD5HashDate"] ELSE "None",
     metadata |-> [k \in (DOMAIN data) \ {"MD5Hash", "MD5HashDate"} |-> data[k]]]

create_entry_for_metadata_resource(id, file_content) ==
    ManifestEntry(calculate_md5(file_content), "now",
                  [k \in {"ObjectUID", "Source", "Dataset", "URI"} |->
                     CASE k = "ObjectUID" -> "NL-" \o id
                       [] k = "Source" -> "actor/creator"
                       [] k = "Dataset" -> "archive"
                       [] k = "URI" -> "cdn/" \o make_filename_from_id(id)])

create_entry_for_referenced_resource(id, r) ==
    ManifestEntry(r.checksum, "checksum-date",
                  [k \in {"ObjectUID", "Source", "Dataset", "FileFormat", "OriginalFilename", "URI"} |->
                     CASE k = "ObjectUID" -> "NL-" \o id
                       [] k = "Source" -> "actor/creator"
                       [] k = "Dataset" -> "archive"
                       [] k = "FileFormat" -> "format/bin"
                       [] k = "OriginalFilename" -> referenced_file_original_filename(id)
                       [] k = "URI" -> referenced_file_uri(id)])

\* Manifest.create_new
Manifest_create_new == [entries |-> EmptyMap, is_valid |-> FALSE, is_modified |-> FALSE]

\* Manifest.load_existing / Manifest.load, for a manifest file that exists
Manifest_load_existing(file) ==
    [entries |-> [f \in DOMAIN file.data |-> from_dict(file.data[f])],
     is_valid |-> TRUE, is_modified |-> FALSE]

\* Manifest.add_entry
add_entry(man, filename, entry) ==
    [man EXCEPT !.entries = Put(@, filename, entry), !.is_modified = TRUE]

\* Manifest.add_metadata_resource: hashes the metadata file as it lies on disk
add_metadata_resource(man, id, mfiles) ==
    [man EXCEPT
       !.entries = Put(@, make_filename_from_id(id),
                       create_entry_for_metadata_resource(id, mfiles[make_filename_from_id(id)])),
       !.is_modified = TRUE]

\* Manifest.add_referenced_resource: takes the checksum the resource records
add_referenced_resource(man, id, r) ==
    [man EXCEPT
       !.entries = Put(@, referenced_file_filename(id), create_entry_for_referenced_resource(id, r)),
       !.is_modified = TRUE]

\* Manifest.update_entry
update_entry(man, filename, kwargs) ==
    IF filename \notin DOMAIN man.entries
    THEN [res |-> "key_error", manifest |-> man]
    ELSE [res |-> "ok",
          manifest |-> [man EXCEPT !.entries[filename] = ManifestEntry_update(@, kwargs),
                                   !.is_modified = TRUE]]

\* Manifest.save that does not clear is_modified after the write
Manifest_save_keeps_flag(man, file, fault) ==
    IF ~man.is_modified
    THEN [res |-> "ok", manifest |-> man, file |-> file, wrote |-> FALSE]
    ELSE IF fault
         THEN [res |-> "io_error", manifest |-> man, file |-> file, wrote |-> FALSE]
         ELSE [res |-> "ok", manifest |-> man,
               file |-> [exists |-> TRUE, data |-> [f \in DOMAIN man.entries |-> to_dict(man.entries[f])]],
               wrote |-> TRUE]

\* Manifest.save: writes only when modified; an IOError is not caught
Manifest_save(man, file, fault) ==
    IF ~man.is_modified
    THEN [res |-> "ok", manifest |-> man, file |-> file, wrote |-> FALSE]
    ELSE IF fault
         THEN [res |-> "io_error", manifest |-> man, file |-> file, wrote |-> FALSE]
         ELSE [res |-> "ok", manifest |-> [man EXCEPT !.is_modified = FALSE],
               file |-> [exists |-> TRUE, data |-> [f \in DOMAIN man.entries |-> to_dict(man.entries[f])]],
               wrote |-> TRUE]

\* the errors dictionary of Manifest.validate with nothing in it
NoErrors == [missing_files |-> {}, checksum_mismatch |-> {}, extra_files |-> {}]

\* the files of the directory tree, as os.walk finds them, by relative path
walk == (DOMAIN meta_files) \cup (DOMAIN data_files)
        \cup (IF manifest_file.exists THEN {manifest_filename} ELSE {})
        \cup (IF eventlog_file.exists THEN {eventlog_filename} ELSE {})

\* os.path.basename of the relative paths that occur
basename(path) ==
    CASE path = "sub/extra.txt" -> "extra.txt"
      [] path = "sub/data.bin" -> "data.bin"
      [] path = "sub/" \o manifest_filename -> manifest_filename
      [] OTHER -> path

\* util.calculate_md5 of the file at a relative path of the directory
file_md5(path) ==
    CASE path \in DOMAIN meta_files -> calculate_md5(meta_files[path])
      [] path \in DOMAIN data_files -> calculate_md5(data_files[path])
      [] path = manifest_filename -> calculate_md5(manifest_file.data)
      [] OTHER -> calculate_md5(eventlog_file.data)

\* Manifest.validate: errors is the dictionary the method fills; report is
\* what the caller gets, the returned dictionary or the one list that the
\* raised exception names.  A checksum mismatch raises nothing.
Manifest_validate(man, ignore_files) ==
    LET ignore == ignore_files \cup {manifest_filename}
        errors ==
            [missing_files |-> {f \in DOMAIN man.entries : f \notin walk},
             checksum_mismatch |-> {f \in (DOMAIN man.entries) \cap walk :
                                      file_md5(f) # man.entries[f].md5hash},
             extra_files |-> {f \in walk : basename(f) \notin ignore
                                            /\ f \notin DOMAIN man.entries}]
    IN  IF errors.missing_files # {}
        THEN [res |-> "file_not_found",
              report |-> [NoErrors EXCEPT !.missing_files = errors.missing_files]]
        ELSE IF errors.extra_files # {}
             THEN [res |-> "file_exists",
                   report |-> [NoErrors EXCEPT !.extra_files = errors.extra_files]]
             ELSE [res |-> "ok", report |-> errors]

\* `ignore_files = ignore_files or []` and the append after it, seen from the
\* caller: an empty list is replaced by a new one and stays as it is, any
\* other list is the object that is appended to
ignore_files_after_validate(ignore_files) ==
    IF ignore_files = <<>> THEN <<>> ELSE Append(ignore_files, manifest_filename)

\* Manifest.validate called with a list object
Manifest_validate_list(man, ignore_files) ==
    LET r == Manifest_validate(man, Range(ignore_files))
    IN  [res |-> r.res, report |-> r.report,
         ignore_files |-> ignore_files_after_validate(ignore_files)]

\* create_from_directory that lists the directory itself and does not walk
\* into its subdirectories
Manifest_create_from_directory_top_level(ignore_files, include_metadata) ==
    LET ignore == ignore_files \cup {manifest_filename}
        files == {f \in walk : basename(f) = f /\ f \notin ignore /\ f # manifest_filename}
        metadata == IF include_metadata
                    THEN [k \in {"FileSize", "LastModified", "FileExtension"} |-> "stat"]
                    ELSE EmptyMap
    IN  [entries |-> [f \in files |-> ManifestEntry(file_md5(f), "now", metadata)],
         is_valid |-> TRUE, is_modified |-> TRUE]

\* Manifest.create_from_directory
Manifest_create_from_directory(ignore_files, include_metadata) ==
    LET ignore == ignore_files \cup {manifest_filename}
        files == {f \in walk : basename(f) \notin ignore /\ f # manifest_filename}
        metadata == IF include_metadata
                    THEN [k \in {"FileSize", "LastModified", "FileExtension"} |-> "stat"]
                    ELSE EmptyMap
    IN  [entries |-> [f \in files |-> ManifestEntry(file_md5(f), "now", metadata)],
         is_valid |-> TRUE, is_modified |-> TRUE]

----------------------------------------------------------------------------
(* The Sip: razu/sip.py.  A call works on a record of everything it can    *)
(* change; res is "ok" until a step of the call raises, and what was done  *)
(* before the raise stays done.                                            *)

World ==
    [meta_files |-> meta_files, data_files |-> data_files,
     manifest_file |-> manifest_file, eventlog_file |-> eventlog_file,
     counter |-> counter, order |-> order, meta_resources |-> meta_resources,
     manifest |-> manifest, log |-> log,
     res |-> "ok", wrote |-> {}, copied |-> {}, failed |-> {}]

\* MetaResourcesDict.with_referenced_files
with_referenced_files(ord, rs) ==
    SelectSeq(ord, LAMBDA id : rs[id].has_referenced_file)

\* MetaResourcesDict.description_uris
description_uris(ord, rs) == {description_uri(id) : id \in Range(ord)}

\* MetaResourcesDict.referenced_file_uris
referenced_file_uris(ord, rs) ==
    {referenced_file_uri(id) : id \in Range(with_referenced_files(ord, rs))}

\* all_uris that leaves out the referenced files
all_uris_descriptions_only(ord, rs) == description_uris(ord, rs)

\* MetaResourcesDict.all_uris
all_uris(ord, rs) == description_uris(ord, rs) \cup referenced_file_uris(ord, rs)

\* unless_locked / Sip.is_locked
is_locked(W) == W.log.is_locked

\* the loop `for source in resource.metadata_sources` of store_metadata_resource
RECURSIVE log_metadata_sources(_, _, _)
log_metadata_sources(lg, id, sources) ==
    IF sources = {}
    THEN [ok |-> TRUE, log |-> lg]
    ELSE LET source == CHOOSE x \in sources : TRUE
             r == metadata_modification(lg, PyStr(description_uri(id)), PyStr(source))
         IN  IF r.ok THEN log_metadata_sources(r.log, id, sources \ {source}) ELSE r

\* store_metadata_resource that logs the one event about the resource itself
\* whatever sources the resource declares
store_metadata_resource_self_only(W, id, faults) ==
    LET r == W.meta_resources[id]
        fn == make_filename_from_id(id)
        sv == MetaResource_save(r, fn \in faults)
        W1 == [W EXCEPT !.meta_files = Put(@, fn, serialize(graph_of(r))),
                        !.meta_resources[id] = sv.r,
                        !.wrote = @ \cup {fn}]
        W2 == [W1 EXCEPT !.manifest = add_metadata_resource(@, id, W1.meta_files)]
        ev == metadata_modification(W2.log, PyStr(description_uri(id)),
                                    PyStr(description_uri(id)))
    IN  IF sv.written
        THEN [W2 EXCEPT !.log = ev.log, !.res = IF ev.ok THEN "ok" ELSE "locked"]
        ELSE IF r.is_modified THEN [W EXCEPT !.failed = @ \cup {fn}] ELSE W

\* Sip.store_metadata_resource
store_metadata_resource(W, id, faults) ==
    LET r == W.meta_resources[id]
        fn == make_filename_from_id(id)
        sv == MetaResource_save(r, fn \in faults)
        W1 == [W EXCEPT !.meta_files = Put(@, fn, serialize(graph_of(r))),
                        !.meta_resources[id] = sv.r,
                        !.wrote = @ \cup {fn}]
        W2 == [W1 EXCEPT !.manifest = add_metadata_resource(@, id, W1.meta_files)]
        ev == IF r.metadata_sources # {}
              THEN log_metadata_sources(W2.log, id, r.metadata_sources)
              ELSE metadata_modification(W2.log, PyStr(description_uri(id)),
                                         PyStr(description_uri(id)))
    IN  IF sv.written
        THEN [W2 EXCEPT !.log = ev.log, !.res = IF ev.ok THEN "ok" ELSE "locked"]
        ELSE IF r.is_modified THEN [W EXCEPT !.failed = @ \cup {fn}] ELSE W

\* Sip.store_referenced_file_if_missing
store_referenced_file_if_missing(W, id) ==
    LET r == W.meta_resources[id]
        dest == referenced_file_filename(id)
        W1 == [W EXCEPT !.data_files = Put(@, dest, source_bytes(id)),
                        !.copied = @ \cup {dest}]
        W2 == [W1 EXCEPT !.manifest = add_referenced_resource(@, id, r)]
        ev == filename_change(W2.log, PyStr(description_uri(id)),
                              PyStr(referenced_file_original_filename(id)), PyStr(dest))
    IN  IF ~r.has_referenced_file \/ dest \in DOMAIN W.data_files
        THEN W
        ELSE [W2 EXCEPT !.log = ev.log, !.res = IF ev.ok THEN "ok" ELSE "locked"]

\* StructuredMetaResource.validate_referenced_file_md5checksum, for a file
\* that is in the package
validate_referenced_file_md5checksum(W, id) ==
    calculate_md5(W.data_files[referenced_file_filename(id)]) = W.meta_resources[id].checksum

\* one step of Sip.validate_referenced_files: hashing a file that is not in
\* the package raises before the event is logged
validate_referenced_file(W, id) ==
    IF referenced_file_filename(id) \notin DOMAIN W.data_files
    THEN [W EXCEPT !.res = "file_not_found"]
    ELSE LET ev == fixity_check(W.log, PyStr(referenced_file_uri(id)),
                                PyBool(validate_referenced_file_md5checksum(W, id)))
         IN  [W EXCEPT !.log = ev.log, !.res = IF ev.ok THEN "ok" ELSE "locked"]

\* MetaResourcesDict.process_all(store_metadata_resource)
RECURSIVE process_all_store(_, _, _)
process_all_store(W, ids, faults) ==
    IF ids = <<>> \/ W.res # "ok"
    THEN W
    ELSE process_all_store(store_metadata_resource(W, Head(ids), faults), Tail(ids), faults)

\* MetaResourcesDict.process_having_referenced_files(store_referenced_file_if_missing)
RECURSIVE process_all_referenced(_, _)
process_all_referenced(W, ids) ==
    IF ids = <<>> \/ W.res # "ok"
    THEN W
    ELSE process_all_referenced(store_referenced_file_if_missing(W, Head(ids)), Tail(ids))

\* Sip.validate_referenced_files
RECURSIVE validate_referenced_files(_, _)
validate_referenced_files(W, ids) ==
    IF ids = <<>> \/ W.res # "ok"
    THEN W
    ELSE validate_referenced_files(validate_referenced_file(W, Head(ids)), Tail(ids))

\* the three index steps of Sip.save: flush the queue, save the log, save the manifest
save_queue(W) ==
    LET r == process_queue(W.log, all_uris(W.order, W.meta_resources))
    IN  [W EXCEPT !.log = r.log,
                  !.res = IF r.ok THEN "ok"
                          ELSE IF W.log.is_locked THEN "locked" ELSE "attribute_error"]

save_log(W, faults) ==
    LET r == Events_save(W.log, W.eventlog_file, eventlog_filename \in faults)
    IN  [W EXCEPT !.log = r.log, !.eventlog_file = r.file, !.res = r.res,
                  !.wrote = IF r.wrote THEN @ \cup {eventlog_filename} ELSE @,
                  !.failed = IF r.res = "ok" /\ W.log.is_modified /\ ~r.wrote
                             THEN @ \cup {eventlog_filename} ELSE @]

save_manifest(W, faults) ==
    LET r == Manifest_save(W.manifest, W.manifest_file, manifest_filename \in faults)
    IN  [W EXCEPT !.manifest = r.manifest, !.manifest_file = r.file, !.res = r.res,
                  !.wrote = IF r.wrote THEN @ \cup {manifest_filename} ELSE @,
                  !.failed = IF r.res = "io_error" THEN @ \cup {manifest_filename} ELSE @]

\* Sip.save that writes the event log and the manifest before it flushes
\* the queue
Sip_save_index_first(W, resdir, faults) ==
    LET W1 == process_all_store(W, W.order, faults)
        W2 == IF W1.res = "ok" /\ resdir
              THEN process_all_referenced(W1, with_referenced_files(W1.order, W1.meta_resources))
              ELSE W1
        W3 == IF W2.res = "ok" THEN save_log(W2, faults) ELSE W2
        W4 == IF W3.res = "ok" THEN save_manifest(W3, faults) ELSE W3
    IN  IF W4.res = "ok" THEN save_queue(W4) ELSE W4

\* Sip.save
Sip_save(W, resdir, faults) ==
    LET W1 == process_all_store(W, W.order, faults)
        W2 == IF W1.res = "ok" /\ resdir
              THEN process_all_referenced(W1, with_referenced_files(W1.order, W1.meta_resources))
              ELSE W1
        W3 == IF W2.res = "ok" THEN save_queue(W2) ELSE W2
        W4 == IF W3.res = "ok" THEN save_log(W3, faults) ELSE W3
    IN  IF W4.res = "ok" THEN save_manifest(W4, faults) ELSE W4

\* Sip.lock, under @unless_locked
Sip_lock(W) ==
    IF is_locked(W)
    THEN [W EXCEPT !.res = "locked"]
    ELSE LET ev == ingestion_end(W.log, PyList(all_uris(W.order, W.meta_resources)))
         IN  [W EXCEPT !.log = ev.log, !.res = IF ev.ok THEN "ok" ELSE "locked"]

\* Sip.create_meta_resource, under @unless_locked.  id is "" for no id: the
\* resource then takes str(MetaResource._counter.next()).
Sip_create_meta_resource(W, id) ==
    IF is_locked(W)
    THEN [W EXCEPT !.res = "locked"]
    ELSE LET new_id == IF id # "" THEN id ELSE ToString(W.counter + 1)
         IN  [W EXCEPT !.counter = IF id # "" THEN @ ELSE @ + 1,
                       !.meta_resources = Put(@, new_id, StructuredMetaResource__init__),
                       !.order = IF new_id \in Range(@) THEN @ ELSE Append(@, new_id)]

----------------------------------------------------------------------------
(* Inputs of the calls *)

Call(event, args) == [event |-> event, args |-> args]

D1 == PyStr(description_uri("1"))
F1 == PyStr(referenced_file_uri("1"))

\* one call of every event method
LogCalls ==
    {Call("filename_change", <<D1, PyStr("orig-1.bin"), PyStr("NL-1.bin")>>),
     Call("fixity_check", <<F1, PyBool(FALSE)>>),
     Call("format_identification", <<F1, PyStr("fmt/1")>>),
     Call("ingestion_end", <<PyList({description_uri("1"), referenced_file_uri("1")})>>),
     Call("ingestion_start", <<PyList({description_uri("1")})>>),
     Call("message_digest_calculation", <<F1, PyStr("d41d8")>>),
     Call("metadata_modification", <<D1, D1>>),
     Call("virus_check", <<F1, PyBool(TRUE), PyStr("clean")>>)}

\* calls that are queued: one with a closure, one with plain values
LogQueueCalls ==
    {Call("ingestion_start", <<PyFunc("all_uris")>>),
     Call("fixity_check", <<F1, PyBool(TRUE)>>)}

\* the direct and the queued calls made next to a Sip
SipCalls == {Call("virus_check", <<F1, PyBool(TRUE), PyStr("clean")>>)}
SipQueueCalls == {Call("ingestion_start", <<PyFunc("all_uris")>>)}

Perms(S) == {p \in [1..Cardinality(S) -> S] : \A i, j \in 1..Cardinality(S) : p[i] = p[j] => i = j}

\* os.listdir(sip_directory)
listdir == (DOMAIN meta_files) \cup (DOMAIN data_files)
           \cup (IF manifest_file.exists THEN {manifest_filename} ELSE {})
           \cup (IF eventlog_file.exists THEN {eventlog_filename} ELSE {})

Outcome(op, res) ==
    [op |-> op, arg |-> "", res |-> res, wrote |-> {}, copied |-> {}, failed |-> {},
     ignore_files |-> {}, report |-> NoErrors, scanned |-> FALSE, kwargs |-> EmptyMap,
     ids |-> <<"", "">>, id |-> "", text |-> <<>>, given |-> <<>>, applied |-> 0]

----------------------------------------------------------------------------
(* The id manager: razu/id_manager.py *)

\* IDManager.__init__; returned lists the ids that calls have returned since
\* then, in order: no code reads it
IDManager__init__ == [used_ids |-> {}, current_id |-> 0, returned |-> <<>>]

\* the `while self.current_id in self.used_ids` loop of generate_id
RECURSIVE next_unused(_, _)
next_unused(n, used_ids) == IF n \in used_ids THEN next_unused(n + 1, used_ids) ELSE n

\* generate_id that does not look at used_ids
generate_id_no_skip(m) ==
    LET n == m.current_id + 1
    IN  [m EXCEPT !.current_id = n, !.used_ids = @ \cup {n}, !.returned = Append(@, n)]

\* IDManager.generate_id
generate_id(m) ==
    LET n == next_unused(m.current_id + 1, m.used_ids)
    IN  [m EXCEPT !.current_id = n, !.used_ids = @ \cup {n}, !.returned = Append(@, n)]

\* IDManager.register_id
register_id(m, entity_id) ==
    IF entity_id \in m.used_ids
    THEN [res |-> "value_error", m |-> m]
    ELSE [res |-> "ok",
          m |-> [m EXCEPT !.used_ids = @ \cup {entity_id}, !.returned = Append(@, entity_id)]]

\* IDManager.get_count
get_count(m) == Cardinality(m.used_ids)

\* IDManager.reset
IDManager_reset(m) == [m EXCEPT !.used_ids = {}, !.current_id = 0, !.returned = <<>>]

----------------------------------------------------------------------------
(* The configuration singleton: razu/config.py.  Config objects are numbered *)
(* in the order of construction; 0 stands for None.                          *)

\* the settings of the configuration file that the model reads and assigns
LoadedSettings ==
    [k \in {"razu_base_uri", "default_entity_kind_segment"} |->
        IF k = "razu_base_uri" THEN "https://data.razu.nl/" ELSE "object"]

\* the settings that the class defines a read-only property for
ConfigProperties == {"razu_base_uri"}

\* the class before initialize: _instance is None.  attrs holds what was
\* assigned on the instance (its __dict__ beside _settings); handed is the
\* object the last successful initialize returned: no code reads it
Config_class == [_instance |-> 0, made |-> 0, attrs |-> EmptyMap, handed |-> 0]

\* Config.__init__ under `if self._instance is not None`, for a config file
\* that can (found) or cannot be found and loaded
Config__init__(c, found) ==
    IF c._instance # 0 THEN [res |-> "runtime_error", c |-> c, obj |-> 0]
    ELSE IF ~found THEN [res |-> "file_not_found", c |-> c, obj |-> 0]
    ELSE [res |-> "ok", c |-> [c EXCEPT !.made = @ + 1], obj |-> c.made + 1]

\* Config.initialize that does not test for an existing instance
Config_initialize_again(c, found) ==
    IF ~found THEN [res |-> "file_not_found", c |-> c, obj |-> 0]
    ELSE [res |-> "ok", obj |-> c.made + 1,
          c |-> [c EXCEPT !.made = @ + 1, !._instance = c.made + 1, !.attrs = EmptyMap,
                          !.handed = c.made + 1]]

\* Config.initialize
Config_initialize(c, found) ==
    IF c._instance # 0 THEN [res |-> "runtime_error", c |-> c, obj |-> 0]
    ELSE LET r == Config__init__(c, found)
         IN  IF r.res # "ok" THEN r
             ELSE [r EXCEPT !.c._instance = r.obj, !.c.attrs = EmptyMap, !.c.handed = r.obj]

\* Config.get_instance
Config_get_instance(c) ==
    IF c._instance = 0 THEN [res |-> "runtime_error", obj |-> 0]
    ELSE [res |-> "ok", obj |-> c._instance]

\* Config.reset
Config_reset(c) == [c EXCEPT !._instance = 0]

\* `config.name = value` on the instance: a property without a setter
\* refuses with AttributeError, any other name becomes an instance attribute
Config_setattr(c, name, value) ==
    IF name \in ConfigProperties THEN [res |-> "attribute_error", c |-> c]
    ELSE [res |-> "ok", c |-> [c EXCEPT !.attrs = Put(@, name, value)]]

\* `config.name`: the property, else the instance attribute, else
\* Config.__getattr__
Config_getattr(c, name) ==
    IF name \in ConfigProperties THEN LoadedSettings[name]
    ELSE IF name \in DOMAIN c.attrs THEN c.attrs[name]
    ELSE IF name \in DOMAIN LoadedSettings THEN LoadedSettings[name]
    ELSE "attribute_error"

----------------------------------------------------------------------------
(* Concepts and their resolvers: razu/concept_resolver.py.  A resolver is   *)
(* its vocabulary's entry of _instances; Concept objects are numbered in    *)
(* the order of construction, 0 stands for None.  What the endpoint answers *)
(* to a query is an input of the call: "none" for no binding or an error.   *)

\* ConceptResolver._instances is empty, no Concept exists; queries counts the
\* queries that were sent: no code reads it
ConceptResolver_class == [_instances |-> EmptyMap, concepts |-> <<>>, queries |-> 0]

\* ConceptResolver(vocabulary): __new__ and __init__
ConceptResolver__new__(R, vocabulary) ==
    IF vocabulary \in DOMAIN R._instances THEN R
    ELSE [R EXCEPT !._instances = Put(@, vocabulary, [cache |-> EmptyMap])]

\* get_concept that queries whether or not the term is cached
get_concept_uncached(R, vocabulary, term, answer) ==
    IF answer = "none"
    THEN [R |-> [R EXCEPT !.queries = @ + 1], concept |-> 0]
    ELSE [R |-> [R EXCEPT !.queries = @ + 1,
                          !.concepts = Append(@, [uri |-> answer, cache |-> EmptyMap]),
                          !._instances[vocabulary].cache = Put(@, term, Len(R.concepts) + 1)],
          concept |-> Len(R.concepts) + 1]

\* ConceptResolver.get_concept
get_concept(R, vocabulary, term, answer) ==
    IF term \in DOMAIN R._instances[vocabulary].cache
    THEN [R |-> R, concept |-> R._instances[vocabulary].cache[term]]
    ELSE IF answer = "none"
         THEN [R |-> [R EXCEPT !.queries = @ + 1], concept |-> 0]
         ELSE [R |-> [R EXCEPT !.queries = @ + 1,
                               !.concepts = Append(@, [uri |-> answer, cache |-> EmptyMap]),
                               !._instances[vocabulary].cache = Put(@, term, Len(R.concepts) + 1)],
               concept |-> Len(R.concepts) + 1]

\* Concept.get_value
get_value(R, concept, predicate, answer) ==
    IF predicate \in DOMAIN R.concepts[concept].cache
    THEN [R |-> R, value |-> R.concepts[concept].cache[predicate]]
    ELSE IF answer = "none"
         THEN [R |-> [R EXCEPT !.queries = @ + 1], value |-> "None"]
         ELSE [R |-> [R EXCEPT !.queries = @ + 1,
                               !.concepts[concept].cache = Put(@, predicate, answer)],
               value |-> answer]

NoObjects ==
    [id_manager |-> IDManager__init__, config |-> Config_class,
     resolver |-> ConceptResolver_class, ignore_list |-> <<>>]

----------------------------------------------------------------------------
(* The state after construction: an empty directory, no object alive *)

Init ==
    /\ meta_files = EmptyMap
    /\ data_files = EmptyMap
    /\ manifest_file = NoFile
    /\ eventlog_file = NoFile
    /\ counter = -1
    /\ pc = "none"
    /\ resources_directory = FALSE
    /\ order = <<>>
    /\ meta_resources = EmptyMap
    /\ manifest = Manifest_create_new
    /\ log = Events__init__(NoFile)
    /\ opened = 0
    /\ last = Outcome("init", "ok")
    /\ objects = NoObjects

\* the effect of a Sip call on the variables
Commit(W, op, arg) ==
    /\ W.log.current_id <= MaxEvents
    /\ meta_files' = W.meta_files
    /\ data_files' = W.data_files
    /\ manifest_file' = W.manifest_file
    /\ eventlog_file' = W.eventlog_file
    /\ counter' = W.counter
    /\ order' = W.order
    /\ meta_resources' = W.meta_resources
    /\ manifest' = W.manifest
    /\ log' = W.log
    /\ last' = [Outcome(op, W.res) EXCEPT !.arg = arg, !.wrote = W.wrote,
                                          !.copied = W.copied, !.failed = W.failed]
    /\ UNCHANGED <<pc, opened, resources_directory>>
    /\ UNCHANGED objects

----------------------------------------------------------------------------
(* Opening and closing a package *)

\* Sip.create_new / Sip._create_new_sip: makedirs(exist_ok=True), a new
\* Manifest, and an Events object that loads the event-log file if there is one
CreateNew(resdir) ==
    /\ pc = "none"
    /\ opened < MaxOpens
    /\ pc' = "sip"
    /\ opened' = opened + 1
    /\ resources_directory' = resdir
    /\ order' = <<>>
    /\ meta_resources' = EmptyMap
    /\ manifest' = Manifest_create_new
    /\ log' = Events__init__(eventlog_file)
    /\ last' = Outcome("create_new", "ok")
    /\ UNCHANGED <<disk, counter>>
    /\ UNCHANGED objects

\* Sip._determine_ids_from_files_in_sip_directory, for the file that the
\* listing returns first
_determine_ids_from_files_in_sip_directory(first) ==
    <<join(extract_source_id_from_filename(spelled(first)).value),
      join(extract_archive_id_from_filename(spelled(first)).value)>>

\* Sip.load_existing: _open_existing_sip and _load_graph.  The creator and
\* archive ids are read from the first file the listing returns; the
\* manifest is looked for under the name these ids give, and that file
\* exists only for the ids the package was created with.
LoadExisting(resdir) ==
    /\ pc = "none"
    /\ opened < MaxOpens
    /\ opened' = opened + 1
    /\ IF listdir = {}
       THEN /\ last' = Outcome("load_existing", "empty_directory")
            /\ UNCHANGED <<disk, counter, pc, resources_directory, order,
                           meta_resources, manifest, log>>
       ELSE \E first \in listdir :
              IF \/ _determine_ids_from_files_in_sip_directory(first) # <<archive_creator_id, archive_id>>
                 \/ ~manifest_file.exists
              THEN /\ last' = [Outcome("load_existing", "manifest_not_found") EXCEPT
                                  !.arg = first,
                                  !.ids = _determine_ids_from_files_in_sip_directory(first)]
                   /\ UNCHANGED <<disk, counter, pc, resources_directory, order,
                                  meta_resources, manifest, log>>
              ELSE \E ord \in Perms({id \in AllIds : make_filename_from_id(id) \in DOMAIN meta_files}) :
                     /\ pc' = "sip"
                     /\ resources_directory' = resdir
                     /\ manifest' = Manifest_load_existing(manifest_file)
                     /\ log' = Events__init__(eventlog_file)
                     /\ order' = ord
                     /\ meta_resources' =
                            [id \in Range(ord) |-> MetaResource_load(meta_files[make_filename_from_id(id)])]
                     /\ last' = [Outcome("load_existing", "ok") EXCEPT
                                    !.arg = first,
                                    !.ids = _determine_ids_from_files_in_sip_directory(first)]
                     /\ UNCHANGED <<disk, counter>>
    /\ UNCHANGED objects

\* the Sip goes out of scope; restart: the process ends too, and with it
\* the class-level counter
Close(restart) ==
    /\ pc \in {"sip", "log", "index"}
    /\ pc' = "none"
    /\ counter' = IF restart THEN -1 ELSE counter
    /\ resources_directory' = FALSE
    /\ order' = <<>>
    /\ meta_resources' = EmptyMap
    /\ manifest' = Manifest_create_new
    /\ log' = Events__init__(NoFile)
    /\ last' = Outcome("close", "ok")
    /\ UNCHANGED <<disk, opened>>
    /\ UNCHANGED objects

\* Events(sip_directory): an event log opened without a Sip
OpenLog ==
    /\ pc = "none"
    /\ opened < MaxOpens
    /\ opened' = opened + 1
    /\ pc' = "log"
    /\ log' = Events__init__(eventlog_file)
    /\ last' = Outcome("open_log", "ok")
    /\ UNCHANGED <<disk, counter, resources_directory, order, meta_resources, manifest>>
    /\ UNCHANGED objects

\* Events(directory) and Manifest.load_existing(directory), or
\* Manifest.create_new(directory) where no manifest file exists, without a Sip
OpenIndex ==
    /\ pc = "none"
    /\ opened < MaxOpens
    /\ opened' = opened + 1
    /\ pc' = "index"
    /\ log' = Events__init__(eventlog_file)
    /\ manifest' = IF manifest_file.exists
                   THEN Manifest_load_existing(manifest_file)
                   ELSE Manifest_create_new
    /\ last' = Outcome("open_index", "ok")
    /\ UNCHANGED <<disk, counter, resources_directory, order, meta_resources>>
    /\ UNCHANGED objects

----------------------------------------------------------------------------
(* Calls on the Sip *)

CreateMetaResource(id) ==
    /\ pc = "sip"
    /\ id = "" => counter < MaxCounter
    /\ Commit(Sip_create_meta_resource(World, id), "create_meta_resource", id)

\* a setter that changes the graph of a resource (set_name, set_keywords, ...)
SetName(id) ==
    /\ pc = "sip"
    /\ id \in DOMAIN meta_resources
    /\ meta_resources[id].version < MaxVersion
    /\ meta_resources' = [meta_resources EXCEPT ![id].version = @ + 1,
                                                ![id].is_modified = TRUE]
    /\ last' = Outcome("set_name", "ok")
    /\ UNCHANGED <<disk, counter, pc, opened, resources_directory, order, manifest, log>>
    /\ UNCHANGED objects

\* StructuredMetaResource.set_fileproperties_by_puid: the resource now has a
\* referenced file
SetFileProperties(id) ==
    /\ pc = "sip"
    /\ id \in DOMAIN meta_resources
    /\ meta_resources' = [meta_resources EXCEPT ![id].has_referenced_file = TRUE,
                                                ![id].is_modified = TRUE]
    /\ last' = Outcome("set_fileproperties_by_puid", "ok")
    /\ UNCHANGED <<disk, counter, pc, opened, resources_directory, order, manifest, log>>
    /\ UNCHANGED objects

\* StructuredMetaResource.set_md5_properties, set once per resource
SetMd5Properties(id, md5checksum) ==
    /\ pc = "sip"
    /\ id \in DOMAIN meta_resources
    /\ meta_resources[id].checksum = "None"
    /\ meta_resources' = [meta_resources EXCEPT ![id].checksum = md5checksum,
                                                ![id].is_modified = TRUE]
    /\ last' = Outcome("set_md5_properties", "ok")
    /\ UNCHANGED <<disk, counter, pc, opened, resources_directory, order, manifest, log>>
    /\ UNCHANGED objects

\* StructuredMetaResource.set_metadata_source: does not set is_modified
SetMetadataSource(id, source) ==
    /\ pc = "sip"
    /\ id \in DOMAIN meta_resources
    /\ meta_resources' = [meta_resources EXCEPT ![id].metadata_sources = @ \cup {source}]
    /\ last' = Outcome("set_metadata_source", "ok")
    /\ UNCHANGED <<disk, counter, pc, opened, resources_directory, order, manifest, log>>
    /\ UNCHANGED objects

StoreMetadataResource(id, faults) ==
    /\ pc = "sip"
    /\ id \in DOMAIN meta_resources
    /\ Commit(store_metadata_resource(World, id, faults), "store_metadata_resource", id)

StoreReferencedFileIfMissing(id) ==
    /\ pc = "sip"
    /\ resources_directory
    /\ id \in DOMAIN meta_resources
    /\ Commit(store_referenced_file_if_missing(World, id), "store_referenced_file_if_missing", id)

ValidateReferencedFiles ==
    /\ pc = "sip"
    /\ Commit(validate_referenced_files(World, with_referenced_files(order, meta_resources)),
              "validate_referenced_files", "")

Lock ==
    /\ pc = "sip"
    /\ Commit(Sip_lock(World), "lock", "")

Save(faults) ==
    /\ pc = "sip"
    /\ Commit(Sip_save(World, resources_directory, faults), "save", "")

----------------------------------------------------------------------------
(* Calls on the event log and on the manifest *)

\* a direct call of an event method
LogEvent(c) ==
    /\ pc \in {"sip", "log", "index"}
    /\ LET r == CallEvent(log, c.event, c.args)
       IN  /\ r.log.current_id <= (IF pc = "log" THEN MaxLogEvents ELSE MaxEvents)
           /\ log' = r.log
           /\ last' = Outcome(c.event, IF r.ok THEN "ok" ELSE "locked")
    /\ UNCHANGED <<disk, counter, pc, opened, resources_directory, order, meta_resources, manifest>>
    /\ UNCHANGED objects

\* Events.to_queue on a queue that holds fewer than bound calls
ToQueueUpTo(c, bound) ==
    /\ pc \in {"sip", "log", "index"}
    /\ Len(log.queue) < bound
    /\ log' = to_queue(log, c.event, c.args)
    /\ last' = Outcome("to_queue", "ok")
    /\ UNCHANGED <<disk, counter, pc, opened, resources_directory, order, meta_resources, manifest>>
    /\ UNCHANGED objects

ToQueue(c) ==
    /\ pc \in {"sip", "log", "index"}
    /\ Len(log.queue) < MaxQueue
    /\ log' = to_queue(log, c.event, c.args)
    /\ last' = Outcome("to_queue", "ok")
    /\ UNCHANGED <<disk, counter, pc, opened, resources_directory, order, meta_resources, manifest>>
    /\ UNCHANGED objects

ProcessQueue ==
    /\ pc \in {"sip", "log", "index"}
    /\ LET r == process_queue(log, all_uris(order, meta_resources))
       IN  /\ r.log.current_id <= (IF pc = "log" THEN MaxLogEvents ELSE MaxEvents)
           /\ log' = r.log
           /\ last' = [Outcome("process_queue",
                                IF r.ok THEN "ok"
                                ELSE IF log.is_locked THEN "locked" ELSE "attribute_error") EXCEPT
                          !.applied = r.log.current_id - log.current_id]
    /\ UNCHANGED <<disk, counter, pc, opened, resources_directory, order, meta_resources, manifest>>
    /\ UNCHANGED objects

EventsSave(faults) ==
    /\ pc \in {"sip", "log", "index"}
    /\ LET W == save_log(World, faults)
       IN  /\ log' = W.log
           /\ eventlog_file' = W.eventlog_file
           /\ last' = [Outcome("events_save", W.res) EXCEPT !.wrote = W.wrote, !.failed = W.failed]
    /\ UNCHANGED <<meta_files, data_files, manifest_file, counter, pc, opened, resources_directory,
                   order, meta_resources, manifest>>
    /\ UNCHANGED objects

ManifestSave(faults) ==
    /\ pc \in {"sip", "index"}
    /\ LET W == save_manifest(World, faults)
       IN  /\ manifest' = W.manifest
           /\ manifest_file' = W.manifest_file
           /\ last' = [Outcome("manifest_save", W.res) EXCEPT
                          !.wrote = W.wrote, !.failed = W.failed,
                          !.scanned = last.scanned, !.ignore_files = last.ignore_files]
    /\ UNCHANGED <<meta_files, data_files, eventlog_file, counter, pc, opened, resources_directory,
                   order, meta_resources, log>>
    /\ UNCHANGED objects

\* Manifest.validate(ignore_files); scanned records that the manifest came
\* from a scan with these ignore_files just before
ManifestValidate(ignore_files) ==
    /\ pc \in {"sip", "index"}
    /\ LET r == Manifest_validate(manifest, ignore_files)
       IN  last' = [Outcome("validate", r.res) EXCEPT
                       !.ignore_files = ignore_files, !.report = r.report,
                       !.scanned = last.scanned /\ last.ignore_files = ignore_files]
    /\ UNCHANGED <<disk, counter, pc, opened, resources_directory, order, meta_resources,
                   manifest, log>>
    /\ UNCHANGED objects

\* Manifest.create_from_directory(directory, ignore_files=..., include_metadata=...);
\* scanned records that the manifest comes from a scan with these ignore_files
ManifestCreateFromDirectory(ignore_files, include_metadata) ==
    /\ pc = "index"
    /\ manifest' = Manifest_create_from_directory(ignore_files, include_metadata)
    /\ last' = [Outcome("create_from_directory", "ok") EXCEPT !.ignore_files = ignore_files,
                                                              !.scanned = TRUE]
    /\ UNCHANGED <<disk, counter, pc, opened, resources_directory, order, meta_resources, log>>
    /\ UNCHANGED objects

\* the paths and the contents of the files that are put into the directory
\* from outside, and the ignore lists that are passed
DataPaths == {"NL-1.bin", "extra.txt", "sub/extra.txt", "sub/data.bin", "sub/NL.manifest.json"}
IgnoreLists == {{}, {"extra.txt"}}

\* a file of the directory is written or overwritten from outside
WriteFile(path, bytes) ==
    /\ data_files' = Put(data_files, path, bytes)
    /\ last' = [Outcome("write_file", "ok") EXCEPT !.arg = path]
    /\ UNCHANGED <<meta_files, manifest_file, eventlog_file, counter, pc, opened,
                   resources_directory, order, meta_resources, manifest, log>>
    /\ UNCHANGED objects

\* a file of the directory is deleted from outside
RemoveFile(path) ==
    /\ path \in DOMAIN data_files
    /\ data_files' = [f \in (DOMAIN data_files) \ {path} |-> data_files[f]]
    /\ last' = [Outcome("remove_file", "ok") EXCEPT !.arg = path]
    /\ UNCHANGED <<meta_files, manifest_file, eventlog_file, counter, pc, opened,
                   resources_directory, order, meta_resources, manifest, log>>
    /\ UNCHANGED objects

\* the files and the values the manifest is called with directly
EntryFiles == {"NL-1.bin"}
EntryHashes == {calculate_md5(source_bytes("1")), "md5(other)"}
EntryKwargs == {[k \in {"Note"} |-> "checked"], [k \in {"md5hash"} |-> "md5(other)"]}

ManifestAddEntry(filename, md5hash) ==
    /\ pc \in {"sip", "index"}
    /\ manifest' = add_entry(manifest, filename, ManifestEntry(md5hash, "now", EmptyMap))
    /\ last' = [Outcome("add_entry", "ok") EXCEPT !.arg = filename]
    /\ UNCHANGED <<disk, counter, pc, opened, resources_directory, order, meta_resources, log>>
    /\ UNCHANGED objects

ManifestUpdateEntry(filename, kwargs) ==
    /\ pc \in {"sip", "index"}
    /\ LET r == update_entry(manifest, filename, kwargs)
       IN  /\ manifest' = r.manifest
           /\ last' = [Outcome("update_entry", r.res) EXCEPT !.arg = filename, !.kwargs = kwargs]
    /\ UNCHANGED <<disk, counter, pc, opened, resources_directory, order, meta_resources, log>>
    /\ UNCHANGED objects

----------------------------------------------------------------------------
(* The specifications *)

\* the faults of one call: none, or one file that cannot be written
Faults(names) == {{}} \cup {{f} : f \in names}
\* the resources that are given a referenced file
FileIds == {"1"}
MetaNames == {make_filename_from_id(id) : id \in Ids}

\* one Sip from creation to lock and beyond, with two resources
Next ==
    \/ CreateNew(TRUE)
    \/ \E id \in Ids : CreateMetaResource(id)
    \/ \E id \in FileIds : SetFileProperties(id)
    \/ \E id \in Ids : StoreMetadataResource(id, {})
    \/ \E id \in Ids : StoreReferencedFileIfMissing(id)
    \/ Lock
    \/ Save({})

Spec == Init /\ [][Next]_vars

\* a package with one resource that is saved, closed and opened again
ReloadNext ==
    \/ CreateNew(TRUE)
    \/ LoadExisting(TRUE)
    \/ Close(FALSE)
    \/ \E id \in FileIds : CreateMetaResource(id)
    \/ \E id \in FileIds : SetFileProperties(id)
    \/ \E id \in FileIds : StoreMetadataResource(id, {})
    \/ \E id \in FileIds : StoreReferencedFileIfMissing(id)
    \/ ValidateReferencedFiles
    \/ Lock
    \/ Save({})

SpecReload == Init /\ [][ReloadNext]_vars

\* the event log on its own: every event method, the queue, save and reopen
LogNext ==
    \/ OpenLog
    \/ Close(FALSE)
    \/ \E c \in LogCalls : LogEvent(c)
    \/ \E c \in SipQueueCalls : ToQueue(c)
    \/ ProcessQueue
    \/ \E faults \in Faults({eventlog_filename}) : EventsSave(faults)

SpecLog == Init /\ [][LogNext]_vars

\* the two index objects on their own: appends, manifest entries, saves
\* that may fail to write, and reopening
IndexNext ==
    \/ OpenIndex
    \/ Close(FALSE)
    \/ \E c \in SipCalls : LogEvent(c)
    \/ \E faults \in Faults({eventlog_filename}) : EventsSave(faults)
    \/ \E f \in EntryFiles, h \in EntryHashes : ManifestAddEntry(f, h)
    \/ \E f \in EntryFiles, kw \in EntryKwargs : ManifestUpdateEntry(f, kw)
    \/ \E faults \in Faults({manifest_filename}) : ManifestSave(faults)

SpecIndex == Init /\ [][IndexNext]_vars

\* one Sip with one resource that is changed and saved again and again,
\* with events waiting in the queue and with writes that may fail
SaveNext ==
    \/ CreateNew(TRUE)
    \/ \E id \in FileIds : CreateMetaResource(id)
    \/ \E id \in FileIds : SetFileProperties(id)
    \/ \E id \in FileIds : \E source \in Sources : SetMetadataSource(id, source)
    \/ \E c \in SipQueueCalls : ToQueue(c)
    \/ \E faults \in Faults({make_filename_from_id("1"), eventlog_filename, manifest_filename}) :
          Save(faults)

SpecSave == Init /\ [][SaveNext]_vars

\* the files that get a manifest entry by hand
ValidateEntryFiles == {"NL-1.bin", "extra.txt"}

\* what a file put into the directory holds at first
original_bytes(path) == IF path = "NL-1.bin" THEN source_bytes("1") ELSE "bytes-of-" \o path

\* a manifest with entries added by hand next to a directory whose files
\* come, change and go, and validation
ValidateNext ==
    \/ OpenIndex
    \/ \E path \in DataPaths : WriteFile(path, original_bytes(path))
    \/ \E path \in ValidateEntryFiles : WriteFile(path, "other-bytes")
    \/ \E path \in DataPaths : RemoveFile(path)
    \/ \E f \in ValidateEntryFiles : \E h \in EntryHashes : ManifestAddEntry(f, h)
    \/ \E ig \in IgnoreLists : ManifestValidate(ig)

SpecValidate == Init /\ [][ValidateNext]_vars

\* the files of the directory that is scanned
ScanPaths == {"NL-1.bin", "extra.txt", "sub/data.bin", "sub/NL.manifest.json"}

\* a manifest made by a scan of a directory that holds files, also in a
\* subdirectory, then saved and validated
ScanNext ==
    \/ OpenIndex
    \/ \E path \in ScanPaths : WriteFile(path, original_bytes(path))
    \/ \E path \in ScanPaths : RemoveFile(path)
    \/ \E ig \in IgnoreLists : \E im \in BOOLEAN : ManifestCreateFromDirectory(ig, im)
    \/ ManifestSave({})
    \/ \E ig \in IgnoreLists : ManifestValidate(ig)

SpecScan == Init /\ [][ScanNext]_vars

\* one new Sip whose resource is given a checksum, stored file by file or
\* by save, and whose manifest is then validated
StoreNext ==
    \/ CreateNew(TRUE)
    \/ \E id \in FileIds : CreateMetaResource(id)
    \/ \E id \in FileIds : SetFileProperties(id)
    \/ \E id \in FileIds : \E c \in EntryHashes : SetMd5Properties(id, c)
    \/ \E id \in FileIds : StoreMetadataResource(id, {})
    \/ \E id \in FileIds : StoreReferencedFileIfMissing(id)
    \/ Save({})
    \/ \E ig \in IgnoreLists : ManifestValidate(ig)

SpecStore == Init /\ [][StoreNext]_vars

\* the keyword arguments of update_entry: a note, a source together with a
\* new checksum, and a key that is spelled as the hash is in the manifest file
UpdateKwargs ==
    {[k \in {"Note"} |-> "checked"],
     [k \in {"Source", "md5hash"} |-> IF k = "Source" THEN "scan" ELSE "md5(other)"],
     [k \in {"MD5Hash"} |-> "md5(forged)"]}

\* a manifest with two entries that are added, extended and added again,
\* saved and loaded again
EntriesNext ==
    \/ OpenIndex
    \/ Close(FALSE)
    \/ \E f \in ValidateEntryFiles : ManifestAddEntry(f, calculate_md5(original_bytes(f)))
    \/ \E f \in ValidateEntryFiles : \E kw \in UpdateKwargs : ManifestUpdateEntry(f, kw)
    \/ ManifestSave({})

SpecEntries == Init /\ [][EntriesNext]_vars

\* the sources a resource declares its metadata to be taken from
MetadataSources == {"source/a", "source/b"}

\* one new Sip whose resource is changed, given sources and stored, with
\* writes that may fail
MetaNext ==
    \/ CreateNew(TRUE)
    \/ \E id \in FileIds : CreateMetaResource(id)
    \/ \E id \in FileIds : SetFileProperties(id)
    \/ \E id \in FileIds : \E source \in MetadataSources : SetMetadataSource(id, source)
    \/ \E id \in FileIds : \E faults \in Faults({make_filename_from_id(id)}) :
          StoreMetadataResource(id, faults)

SpecMeta == Init /\ [][MetaNext]_vars

\* the frame of a call on one of the objects beside the package
PackageUnchanged ==
    UNCHANGED <<disk, counter, pc, opened, resources_directory, order, meta_resources,
                manifest, log>>

GenerateId ==
    /\ generate_id(objects.id_manager).current_id <= MaxId
    /\ objects' = [objects EXCEPT !.id_manager = generate_id(@)]
    /\ last' = Outcome("generate_id", "ok")
    /\ PackageUnchanged

RegisterId(entity_id) ==
    /\ LET r == register_id(objects.id_manager, entity_id)
       IN  /\ objects' = [objects EXCEPT !.id_manager = r.m]
           /\ last' = [Outcome("register_id", r.res) EXCEPT !.applied = entity_id]
    /\ PackageUnchanged

IdManagerReset ==
    /\ objects' = [objects EXCEPT !.id_manager = IDManager_reset(@)]
    /\ last' = Outcome("reset", "ok")
    /\ PackageUnchanged

\* one IDManager that generates, registers and is reset
IdManagerNext ==
    \/ GenerateId
    \/ \E entity_id \in 0..MaxId : RegisterId(entity_id)
    \/ IdManagerReset

SpecIdManager == Init /\ [][IdManagerNext]_vars

ConfigInitialize(found) ==
    /\ objects.config.made < MaxConfigs
    /\ LET r == Config_initialize(objects.config, found)
       IN  /\ objects' = [objects EXCEPT !.config = r.c]
           /\ last' = [Outcome("initialize", r.res) EXCEPT !.applied = r.obj]
    /\ PackageUnchanged

\* Config(config_file) called directly
ConfigConstruct(found) ==
    /\ objects.config.made < MaxConfigs
    /\ LET r == Config__init__(objects.config, found)
       IN  /\ objects' = [objects EXCEPT !.config = r.c]
           /\ last' = [Outcome("construct", r.res) EXCEPT !.applied = r.obj]
    /\ PackageUnchanged

ConfigGetInstance ==
    /\ LET r == Config_get_instance(objects.config)
       IN  last' = [Outcome("get_instance", r.res) EXCEPT !.applied = r.obj]
    /\ UNCHANGED objects
    /\ PackageUnchanged

ConfigReset ==
    /\ objects' = [objects EXCEPT !.config = Config_reset(@)]
    /\ last' = Outcome("config_reset", "ok")
    /\ PackageUnchanged

\* an assignment to a setting of the instance that get_instance returns
ConfigAssign(name, value) ==
    /\ objects.config._instance # 0
    /\ LET r == Config_setattr(objects.config, name, value)
       IN  /\ objects' = [objects EXCEPT !.config = r.c]
           /\ last' = [Outcome("assign", r.res) EXCEPT !.arg = name]
    /\ PackageUnchanged

\* the Config class through initialize, reset and direct construction, with
\* assignments to the instance
ConfigNext ==
    \/ \E found \in BOOLEAN : ConfigInitialize(found)
    \/ \E found \in BOOLEAN : ConfigConstruct(found)
    \/ ConfigGetInstance
    \/ ConfigReset
    \/ \E name \in DOMAIN LoadedSettings : \E value \in {"new-value", "other-value"} :
          ConfigAssign(name, value)

SpecConfig == Init /\ [][ConfigNext]_vars

\* the caller makes a list of file names to ignore
NewIgnoreList(ignore_files) ==
    /\ objects' = [objects EXCEPT !.ignore_list = ignore_files]
    /\ last' = [Outcome("new_ignore_list", "ok") EXCEPT !.given = ignore_files]
    /\ PackageUnchanged

\* manifest.validate(ignore_files) with the list the caller keeps
ValidateWithList ==
    /\ pc \in {"sip", "index"}
    /\ LET r == Manifest_validate_list(manifest, objects.ignore_list)
       IN  /\ Len(r.ignore_files) <= MaxIgnore
           /\ objects' = [objects EXCEPT !.ignore_list = r.ignore_files]
           /\ last' = [Outcome("validate_list", r.res) EXCEPT
                           !.given = objects.ignore_list, !.report = r.report]
    /\ PackageUnchanged

\* a manifest with entries added by hand next to a directory whose files
\* come and go, validated again and again with the list of the caller
IgnoreNext ==
    \/ OpenIndex
    \/ \E path \in ValidateEntryFiles : WriteFile(path, original_bytes(path))
    \/ \E path \in ValidateEntryFiles : RemoveFile(path)
    \/ \E f \in EntryFiles : \E h \in EntryHashes : ManifestAddEntry(f, h)
    \/ \E l \in {<<>>, <<"extra.txt">>} : NewIgnoreList(l)
    \/ ValidateWithList

SpecIgnore == Init /\ [][IgnoreNext]_vars

\* to_queue of an ingestion_start about a resource that no queued call and
\* no event is about yet
QueueStart(id) ==
    /\ \A i \in 1..Len(log.queue) : log.queue[i].given # <<PyList({description_uri(id)})>>
    /\ \A t \in log.graph : ~(t.p = "eror:sou" /\ t.o = description_uri(id))
    /\ ToQueueUpTo(Call("ingestion_start", <<PyList({description_uri(id)})>>), MaxLongQueue)

\* to_queue of a name that is no event method
QueueUnknown ==
    /\ pc = "sip"
    /\ ToQueueUpTo(Call("no_such_event", <<D1>>), MaxLongQueue)

\* one Sip whose queue holds calls about different resources and calls that
\* raise, flushed by process_queue and by save
FlushNext ==
    \/ CreateNew(FALSE)
    \/ \E id \in AllIds : QueueStart(id)
    \/ QueueUnknown
    \/ ProcessQueue
    \/ Save({})

SpecFlush == Init /\ [][FlushNext]_vars

\* resources registered with ids of the caller and with ids of the counter,
\* changed, saved and loaded again
RegisterNext ==
    \/ CreateNew(FALSE)
    \/ LoadExisting(FALSE)
    \/ Close(FALSE)
    \/ \E id \in {"0", ""} : CreateMetaResource(id)
    \/ SetName("0")
    \/ Save({})

SpecRegister == Init /\ [][RegisterNext]_vars

Vocabularies == {"actor", "licentie"}
Terms == {"G0321", "G312"}
Predicates == {"skos:prefLabel"}
UriAnswers == {"none", "actor/1", "actor/2"}
ValueAnswers == {"none", "Gemeente", "Waterschap"}

NewConceptResolver(vocabulary) ==
    /\ objects' = [objects EXCEPT !.resolver = ConceptResolver__new__(@, vocabulary)]
    /\ last' = [Outcome("concept_resolver", "ok") EXCEPT !.arg = vocabulary]
    /\ PackageUnchanged

GetConcept(vocabulary, term, answer) ==
    /\ vocabulary \in DOMAIN objects.resolver._instances
    /\ LET r == get_concept(objects.resolver, vocabulary, term, answer)
       IN  /\ r.R.queries <= MaxQueries
           /\ objects' = [objects EXCEPT !.resolver = r.R]
           /\ last' = [Outcome("get_concept", "ok") EXCEPT
                           !.arg = vocabulary, !.id = term, !.applied = r.concept,
                           !.given = <<answer>>]
    /\ PackageUnchanged

GetValue(concept, predicate, answer) ==
    /\ concept \in 1..Len(objects.resolver.concepts)
    /\ LET r == get_value(objects.resolver, concept, predicate, answer)
       IN  /\ r.R.queries <= MaxQueries
           /\ objects' = [objects EXCEPT !.resolver = r.R]
           /\ last' = [Outcome("get_value", "ok") EXCEPT
                           !.arg = predicate, !.id = r.value, !.applied = concept,
                           !.given = <<answer>>]
    /\ PackageUnchanged

\* resolvers of two vocabularies and their concepts, asked again and again
\* while the endpoint's answers change
ResolverNext ==
    \/ \E vocabulary \in Vocabularies : NewConceptResolver(vocabulary)
    \/ \E vocabulary \in Vocabularies : \E term \in Terms : \E answer \in UriAnswers :
          GetConcept(vocabulary, term, answer)
    \/ \E concept \in 1..MaxQueries : \E predicate \in Predicates : \E answer \in ValueAnswers :
          GetValue(concept, predicate, answer)

SpecResolver == Init /\ [][ResolverNext]_vars

\* the calls that are queued on a Sip: the event that locks, with a closure,
\* and one with two plain values
QueueCalls ==
    {Call("ingestion_end", <<PyFunc("all_uris")>>),
     Call("fixity_check", <<F1, PyBool(FALSE)>>)}

\* a Sip whose events wait in the queue while resources are added, saved,
\* closed and loaded again
QueueNext ==
    \/ CreateNew(TRUE)
    \/ LoadExisting(TRUE)
    \/ Close(FALSE)
    \/ \E id \in FileIds : CreateMetaResource(id)
    \/ \E c \in QueueCalls : ToQueueUpTo(c, MaxLongQueue)
    \/ ProcessQueue
    \/ Save({})

SpecQueue == Init /\ [][QueueNext]_vars

\* the creators, archives and object ids that names are made for, and the
\* directories a name is found in: none, plain ones, one with a "-" and one
\* that is named after a package
Creators == {"G0321", "G312", "A1"}
Archives == {"661", "1"}
ObjectIds == {"0", "1", "2", "42", "100"}
Directories ==
    {<<>>,
     <<"/", "some", "/", "path", "/", "to", "/">>,
     <<"/", "a", "-", "b", "/">>,
     <<"/", "sip", "/">> \o filename_prefix(Cfg("G0321", "661")) \o <<"/">>}

\* Identifiers.make_filename_from_id, then the three extractions from the
\* name, as a file name or as a file path
ExtractFromFilename(cfg, id, dir) ==
    /\ LET path == dir \o make_filename_text(cfg, id)
           source == extract_source_id_from_filename(path)
           archive == extract_archive_id_from_filename(path)
           oid == IF dir = <<>> THEN extract_id_from_filename(path) ELSE extract_id_from_file_path(path)
       IN  last' = [Outcome("extract_from_filename",
                            IF {source.res, archive.res, oid.res} = {"ok"} THEN "ok" ELSE "value_error")
                      EXCEPT !.arg = join(path), !.text = path,
                             !.given = <<cfg.archive_creator_id, cfg.archive_id, id>>,
                             !.ids = <<join(source.value), join(archive.value)>>,
                             !.id = join(oid.value)]
    /\ UNCHANGED <<disk, counter, pc, opened, resources_directory, order, meta_resources,
                   manifest, log>>
    /\ UNCHANGED objects

\* names that are no metadata file names, next to two that are
OtherNames ==
    LET cfg == Cfg("G0321", "661")
        uid == filename_prefix(cfg) \o <<"-", "42">>
    IN  {make_filename_text(cfg, "42"), make_filename_text(Cfg("A1", "1"), "0"),
         filename_prefix(cfg) \o <<".", "manifest", ".", "json">>,
         filename_prefix(cfg) \o <<".", "eventlog", ".", "json">>,
         filename_prefix(cfg),
         razu_file_id,
         <<"G0321", "-", "661", "-", "42", ".", "meta", ".", "json">>,
         <<"XX", "-", "G0321", "-", "661", "-", "42", ".", "meta", ".", "json">>,
         <<"42", ".", "meta", ".", "json">>,
         <<"readme", ".", "txt">>,
         uid,
         uid \o <<".", "tif">>,
         uid \o <<".", "json">>,
         uid \o <<".", "meta", ".", "xml">>,
         uid \o <<"-", "7", ".", "meta", ".", "json">>}

\* Identifiers.extract_id_from_filename(filename)
ExtractIdFromFilename(filename) ==
    /\ LET oid == extract_id_from_filename(filename)
       IN  last' = [Outcome("extract_id_from_filename", oid.res)
                      EXCEPT !.arg = join(filename), !.text = filename, !.id = join(oid.value)]
    /\ UNCHANGED <<disk, counter, pc, opened, resources_directory, order, meta_resources,
                   manifest, log>>
    /\ UNCHANGED objects

\* the identifier functions on their own
IdsNext ==
    \/ \E c \in Creators, a \in Archives, id \in ObjectIds, dir \in Directories :
          ExtractFromFilename(Cfg(c, a), id, dir)
    \/ \E filename \in OtherNames : ExtractIdFromFilename(filename)

SpecIds == Init /\ [][IdsNext]_vars

----------------------------------------------------------------------------
(* Properties.  A step is a call of op exactly when last'.op = op: every    *)
(* action records its own name.                                            *)

alive == pc \in {"sip", "log", "index"}

\* the triples of the event stored in an event-log file
FileGraph(file) == IF file.exists THEN parse(file.data) ELSE {}

ObjectsOf(graph, n, p) == {t.o : t \in {u \in graph : u.s.id = n /\ u.p = p}}

\* the call changes a resource with pending changes / a file that is not yet copied
StoresPending ==
    /\ last'.op = "store_metadata_resource"
    /\ last'.arg \in DOMAIN meta_resources
    /\ meta_resources[last'.arg].is_modified

CopiesMissing ==
    /\ last'.op = "store_referenced_file_if_missing"
    /\ last'.arg \in DOMAIN meta_resources
    /\ meta_resources[last'.arg].has_referenced_file
    /\ referenced_file_filename(last'.arg) \notin DOMAIN data_files

\* C1: once lock() has appended an ingestion_end event, every later
\* create_meta_resource, store_metadata_resource (pending changes),
\* store_referenced_file_if_missing (file not yet in the package) and lock on
\* the same Sip fails with the locked error, and no second ingestion_end
\* event is ever appended.
C1_LockIsTerminal ==
    [][(pc = "sip" /\ has_ingestion_end(log.graph)) =>
          /\ (last'.op \in {"create_meta_resource", "lock"} \/ StoresPending \/ CopiesMissing)
                => last'.res = "locked"
          /\ Cardinality(EventsOfType(log'.graph, "ine")) <= 1]_vars

\* C2: in every state of an event log, is_locked holds exactly when the
\* events contain one of type ingestion_end.
C2_IsLockedIffIngestionEnd ==
    alive => (log.is_locked <=> has_ingestion_end(log.graph))

\* the call has a referenced file to validate, and every such file is there
ValidatesFiles ==
    /\ last'.op = "validate_referenced_files"
    /\ with_referenced_files(order, meta_resources) # <<>>
    /\ \A id \in Range(with_referenced_files(order, meta_resources)) :
          referenced_file_filename(id) \in DOMAIN data_files

\* C3: on a package whose event log is locked, store_metadata_resource
\* (pending changes), store_referenced_file_if_missing (file not yet copied),
\* validate_referenced_files (with files to validate) and save fail with the
\* locked error and leave the files of the directory, the manifest (entries
\* and is_modified) and the event log as they were.
C3_LockCheckedBeforeMutation ==
    [][(pc = "sip" /\ log.is_locked
        /\ (StoresPending \/ CopiesMissing \/ ValidatesFiles \/ last'.op = "save")) =>
          /\ last'.res = "locked"
          /\ disk' = disk
          /\ manifest' = manifest
          /\ log' = log]_vars

\* C4: once is_locked of an event log is true it stays true, every append
\* of whatever event type, direct or from the queue, fails, and a failed
\* append leaves the events, current_id and is_modified unchanged.
C4_LockedIsAbsorbing ==
    [][(pc = "log" /\ log.is_locked /\ pc' = "log") =>
          /\ log'.is_locked
          /\ last'.op \in EventNames => last'.res = "locked"
          /\ (last'.op = "process_queue" /\ log.queue # <<>>) => last'.res = "locked"
          /\ log'.graph = log.graph
          /\ log'.current_id = log.current_id
          /\ log'.is_modified = log.is_modified]_vars

\* a locked log has refused an append of every event type
C4_Witness ==
    /\ pc = "log" /\ log.is_locked
    /\ last.op = "virus_check" /\ last.res = "locked"
    /\ log.queue # <<>>

C6_LockAppendsOneIngestionEnd ==
    [][(pc = "sip" /\ ~log.is_locked /\ last'.op = "lock") =>
          LET n == log.current_id + 1
          IN  /\ last'.res = "ok"
              /\ log.graph \subseteq log'.graph
              /\ n \notin EventIds(log.graph)
              /\ EventIds(log'.graph) = EventIds(log.graph) \cup {n}
              /\ ObjectsOf(log'.graph, n, "eventType") = {"ine"}
              /\ ObjectsOf(log'.graph, n, "eror:sou") =
                    {description_uri(id) : id \in DOMAIN meta_resources}
                    \cup {referenced_file_uri(id) :
                            id \in {i \in DOMAIN meta_resources : meta_resources[i].has_referenced_file}}
              /\ disk' = disk
              /\ manifest' = manifest
              /\ meta_resources' = meta_resources]_vars

\* lock() has run on a Sip with a resource that has a referenced file and
\* one that has none
C6_Witness ==
    /\ pc = "sip" /\ last.op = "lock" /\ last.res = "ok"
    /\ DOMAIN meta_resources = {"1", "2"}
    /\ meta_resources["1"].has_referenced_file /\ ~meta_resources["2"].has_referenced_file
    /\ \E n \in EventsOfType(log.graph, "ine") :
          Cardinality(ObjectsOf(log.graph, n, "eror:sou")) = 3

\* the triples of the events that graph g holds are the same in graph h
SameEvents(g, h) ==
    /\ g \subseteq h
    /\ \A t \in h \ g : t.s.id \notin EventIds(g)

\* C7: the event log is append-only: no call removes an event, changes one
\* or gives it another id, in memory and in the event-log file.
C7_AppendOnly ==
    [][/\ (alive /\ pc' = pc) => SameEvents(log.graph, log'.graph)
       /\ SameEvents(FileGraph(eventlog_file), FileGraph(eventlog_file'))
       /\ (last'.op = "open_log") => log'.graph = FileGraph(eventlog_file)]_vars

\* a reopened log got a second event from the queue and was saved
C7_Witness ==
    /\ pc = "log" /\ opened = 2
    /\ last.op = "events_save" /\ eventlog_filename \in last.wrote
    /\ EventsOfType(log.graph, "ins") # {}
    /\ Cardinality(EventIds(FileGraph(eventlog_file))) = 2

\* C8: event ids are unique and increase: a fresh log starts at 1, a loaded
\* log continues at max(existing ids) + 1, every call numbers its new events
\* current_id + 1, current_id + 2, ..., and no event has two types.
C8_EventIdsIncrease ==
    [][/\ (last'.op = "open_log") =>
             log'.current_id = Max(EventIds(FileGraph(eventlog_file)))
       /\ (pc = "log" /\ pc' = "log") =>
             /\ EventIds(log'.graph) \ EventIds(log.graph) = (log.current_id + 1)..log'.current_id
             /\ \A n \in EventIds(log.graph) : n <= log.current_id
             /\ \A n \in EventIds(log'.graph) :
                   Cardinality(ObjectsOf(log'.graph, n, "eventType")) = 1]_vars

\* a log that was loaded with event 1 has appended event 2
C8_Witness ==
    /\ pc = "log" /\ opened = 2
    /\ EventIds(FileGraph(eventlog_file)) = {1}
    /\ EventIds(log.graph) = {1, 2}
    /\ last.op \in EventNames /\ last.res = "ok"

ManifestDump(man) == [f \in DOMAIN man.entries |-> to_dict(man.entries[f])]

\* C9: Manifest.save and Events.save write the file exactly when is_modified
\* is true (and the write succeeds), and then clear the flag; a save of an
\* unmodified object changes nothing, so the second of two saves in a row is
\* a no-op; every add_entry, update_entry and append sets is_modified.
C9_IdempotentSave ==
    [][(pc = "index" /\ pc' = "index") =>
          /\ (last'.op = "manifest_save") =>
                /\ (manifest_filename \in last'.wrote) <=> (manifest.is_modified /\ last'.res = "ok")
                /\ (manifest_filename \in last'.wrote) =>
                      /\ ~manifest'.is_modified
                      /\ manifest_file' = [exists |-> TRUE, data |-> ManifestDump(manifest)]
                /\ (manifest_filename \notin last'.wrote) =>
                      /\ manifest' = manifest
                      /\ manifest_file' = manifest_file
                /\ (last.op = "manifest_save" /\ last.res = "ok") => last'.wrote = {}
          /\ (last'.op = "events_save") =>
                /\ (eventlog_filename \in last'.wrote) <=> (log.is_modified /\ last'.failed = {})
                /\ (eventlog_filename \in last'.wrote) =>
                      /\ ~log'.is_modified
                      /\ FileGraph(eventlog_file') = log.graph
                /\ (eventlog_filename \notin last'.wrote) =>
                      /\ log' = log
                      /\ eventlog_file' = eventlog_file
                /\ (last.op = "events_save" /\ last.failed = {}) => last'.wrote = {}
          /\ (last'.op \in {"add_entry", "update_entry"} /\ last'.res = "ok") => manifest'.is_modified
          /\ (last'.op \in EventNames /\ last'.res = "ok") => log'.is_modified]_vars

\* both files were written and a further save of the manifest wrote nothing
C9_Witness ==
    /\ pc = "index"
    /\ last.op = "manifest_save" /\ last.res = "ok" /\ last.wrote = {}
    /\ manifest_file.exists /\ manifest_file.data = ManifestDump(manifest)
    /\ DOMAIN manifest.entries # {}
    /\ eventlog_file.exists /\ ~log.is_modified /\ log.graph # {}

MissingNow == {f \in DOMAIN manifest.entries : f \notin walk}
MismatchedNow ==
    {f \in DOMAIN manifest.entries : f \in walk /\ file_md5(f) # manifest.entries[f].md5hash}
ExtraNow(ignore_files) ==
    {f \in walk : /\ f \notin DOMAIN manifest.entries
                  /\ basename(f) \notin ignore_files \cup {manifest_filename}}

\* C11: validate(ignore_files) returns normally exactly when no listed file
\* is missing, no listed file has a digest other than the recorded one and
\* no file that is not ignored is unlisted; any of the three makes it raise.
C11_ValidateRaisesOnAnyDiscrepancy ==
    [][(last'.op = "validate") =>
          ((last'.res = "ok") <=>
             /\ MissingNow = {}
             /\ MismatchedNow = {}
             /\ ExtraNow(last'.ignore_files) = {})]_vars

\* C12: when files are missing, digests differ and extra files exist all at
\* once, what a failing validate hands to its caller names all the missing,
\* all the mismatched and all the extra files.
C12_ValidateReportsEverything ==
    [][(/\ last'.op = "validate"
        /\ MissingNow # {} /\ MismatchedNow # {} /\ ExtraNow(last'.ignore_files) # {}) =>
          /\ last'.res # "ok"
          /\ last'.report.missing_files = MissingNow
          /\ last'.report.checksum_mismatch = MismatchedNow
          /\ last'.report.extra_files = ExtraNow(last'.ignore_files)]_vars

\* C13: a validate call never reports the manifest file or the event-log
\* file as extra, whatever ignore list it is given; so after a save of a new
\* Sip with a resource that wrote its files, validate without an ignore list
\* does not fail for extra files.
C13_IndexFilesNeverExtra ==
    [][(last'.op = "validate") =>
          /\ manifest_filename \notin last'.report.extra_files
          /\ eventlog_filename \notin last'.report.extra_files
          /\ (/\ last.op = "save" /\ last.res = "ok" /\ order # <<>>
              /\ last'.ignore_files = {}) => last'.res # "file_exists"]_vars

\* the files for which a step of a Sip call recorded a manifest entry: the
\* metadata files it wrote and the referenced files it copied
RecordedBy(l) == (l.wrote \cap DOMAIN meta_files') \cup l.copied

\* C18: every manifest entry that store_metadata_resource,
\* store_referenced_file_if_missing or save records has as MD5Hash the
\* digest of the bytes of its file as it lies in the package directory right
\* after the call.
C18_RecordedHashIsDigestOfFile ==
    [][(last'.op \in {"store_metadata_resource", "store_referenced_file_if_missing", "save"}) =>
          \A f \in RecordedBy(last') :
             /\ f \in DOMAIN manifest'.entries
             /\ manifest'.entries[f].md5hash =
                   calculate_md5(IF f \in DOMAIN meta_files' THEN meta_files'[f] ELSE data_files'[f])]_vars

\* C14: a validate call on a manifest that create_from_directory has just
\* made, with the same ignore list and with nothing but a save of the
\* manifest in between, raises nothing and returns a report whose three
\* lists are empty, whatever the directory holds.
C14_ScanThenValidateIsClean ==
    (last.op = "validate" /\ last.scanned) =>
        /\ last.res = "ok"
        /\ last.report = NoErrors

\* validated after a scan and a save: a directory with an ignored file, a
\* file in a subdirectory, a second manifest file in the subdirectory and
\* the manifest file itself
C14_Witness ==
    /\ last.op = "validate" /\ last.scanned /\ last.res = "ok"
    /\ last.ignore_files = {"extra.txt"}
    /\ {"NL-1.bin", "extra.txt", "sub/data.bin", "sub/NL.manifest.json"} \subseteq DOMAIN data_files
    /\ {"NL-1.bin", "sub/data.bin"} \subseteq DOMAIN manifest.entries
    /\ manifest_file.exists /\ ~manifest.is_modified

\* C15: after a save that wrote the manifest file, loading the manifest from
\* the directory gives the entries the saved manifest holds: the same
\* filenames, each with the same MD5Hash, MD5HashDate and metadata, and
\* is_modified false.
C15_ManifestRoundTrip ==
    (last.op = "manifest_save" /\ manifest_filename \in last.wrote) =>
        /\ Manifest_load_existing(manifest_file).entries = manifest.entries
        /\ ~Manifest_load_existing(manifest_file).is_modified

\* C16: update_entry for a filename that is not in the manifest raises
\* KeyError and leaves the manifest as it was; for a filename that is in it,
\* the entry takes md5hash and md5date from the call if they are given, gets
\* every other keyword as a metadata key, keeps every metadata key the call
\* does not name, every other entry stays as it was, and is_modified is set.
C16_UpdateEntryMerges ==
    [][(last'.op = "update_entry") =>
          LET f == last'.arg
              kw == last'.kwargs
          IN  IF f \notin DOMAIN manifest.entries
              THEN last'.res = "key_error" /\ manifest' = manifest
              ELSE LET pre == manifest.entries[f]
                       post == manifest'.entries[f]
                       named == (DOMAIN kw) \ {"md5hash", "md5date"}
                   IN  /\ last'.res = "ok"
                       /\ manifest'.is_modified
                       /\ DOMAIN manifest'.entries = DOMAIN manifest.entries
                       /\ \A g \in (DOMAIN manifest.entries) \ {f} :
                             manifest'.entries[g] = manifest.entries[g]
                       /\ post.md5hash = (IF "md5hash" \in DOMAIN kw THEN kw["md5hash"] ELSE pre.md5hash)
                       /\ post.md5date = (IF "md5date" \in DOMAIN kw THEN kw["md5date"] ELSE pre.md5date)
                       /\ DOMAIN post.metadata = (DOMAIN pre.metadata) \cup named
                       /\ \A k \in named : post.metadata[k] = kw[k]
                       /\ \A k \in (DOMAIN pre.metadata) \ named : post.metadata[k] = pre.metadata[k]]_vars

\* an update that named Source and md5hash, on an entry that had a note,
\* next to a second entry
C16_Witness ==
    /\ last.op = "update_entry" /\ last.res = "ok"
    /\ "Source" \in DOMAIN last.kwargs
    /\ DOMAIN manifest.entries = ValidateEntryFiles
    /\ {"Note", "Source"} \subseteq DOMAIN manifest.entries[last.arg].metadata
    /\ manifest.entries[last.arg].md5hash = "md5(other)"

\* C17: while a manifest is open, no call removes a filename from its
\* entries and no call removes a metadata key from an entry.
C17_EntriesOnlyGrow ==
    [][(pc \in {"sip", "index"} /\ pc' = pc) =>
          \A f \in DOMAIN manifest.entries :
             /\ f \in DOMAIN manifest'.entries
             /\ DOMAIN manifest.entries[f].metadata \subseteq DOMAIN manifest'.entries[f].metadata]_vars

\* C19: create_new on a directory that holds files fails with
\* DirectoryNotEmpty and changes nothing; on an empty directory it gives a
\* Sip with no resources, an empty manifest and an event log that is empty,
\* unlocked and starts its ids anew.
C19_CreateNewNeedsEmptyDirectory ==
    [][(last'.op = "create_new") =>
          IF listdir # {}
          THEN /\ last'.res = "directory_not_empty"
               /\ pc' = pc /\ disk' = disk /\ manifest' = manifest /\ log' = log
          ELSE /\ last'.res = "ok" /\ pc' = "sip"
               /\ order' = <<>> /\ meta_resources' = EmptyMap
               /\ manifest'.entries = EmptyMap
               /\ log'.graph = {} /\ log'.current_id = 0 /\ ~log'.is_locked]_vars

\* the ids of the metadata files in the directory
StoredIds == {id \in AllIds : make_filename_from_id(id) \in DOMAIN meta_files}

\* C20: load_existing fails on an empty directory; on a package that was
\* saved with a resource (manifest, event log and a metadata file are
\* there) it succeeds whichever file the listing returns first, finds the
\* creator and archive ids of the package, loads the manifest and the
\* event log from their files, and registers exactly the resources that
\* have a metadata file, each as its file describes it and unmodified.
C20_LoadExistingRecoversPackage ==
    [][(last'.op = "load_existing") =>
          IF listdir = {}
          THEN last'.res = "empty_directory" /\ pc' = pc
          ELSE (manifest_file.exists /\ eventlog_file.exists /\ StoredIds # {}) =>
                  /\ last'.res = "ok" /\ pc' = "sip"
                  /\ last'.ids = <<archive_creator_id, archive_id>>
                  /\ manifest'.entries = Manifest_load_existing(manifest_file).entries
                  /\ ~manifest'.is_modified
                  /\ log'.graph = FileGraph(eventlog_file)
                  /\ ~log'.is_modified
                  /\ Range(order') = StoredIds /\ DOMAIN meta_resources' = StoredIds
                  /\ \A id \in StoredIds :
                        /\ ~meta_resources'[id].is_modified
                        /\ graph_of(meta_resources'[id]) = parse(meta_files[make_filename_from_id(id)])]_vars

Words(text) == Range(text) \ {"-", ".", "/"}
HasMetadataShape(text) ==
    \E c \in Words(text), a \in Words(text), id \in Words(text) :
       text = make_filename_text(Cfg(c, a), id)

EventTypeOf(event) ==
    CASE event = "filename_change" -> "fil"
      [] event = "fixity_check" -> "fix"
      [] event = "format_identification" -> "for"
      [] event = "ingestion_end" -> "ine"
      [] event = "ingestion_start" -> "ins"
      [] event = "message_digest_calculation" -> "mes"
      [] event = "metadata_modification" -> "mem"
      [] event = "virus_check" -> "vir"

\* new holds old's events unchanged plus one event for each of the first n
\* calls of old's queue, numbered from old's current_id + 1 in queue order
AppliedInOrder(old, new, n) ==
    /\ SameEvents(old.graph, new.graph)
    /\ new.current_id = old.current_id + n
    /\ EventIds(new.graph) \ EventIds(old.graph) = (old.current_id + 1)..(old.current_id + n)
    /\ \A i \in 1..n :
          ObjectsOf(new.graph, old.current_id + i, "eventType") = {EventTypeOf(old.queue[i].event)}

faithful_args(given, uris) ==
    [i \in 1..Len(given) |->
        IF callable(given[i]) THEN CallClosure(given[i], uris) ELSE given[i]]

\* the log after calling the first n queued events with faithful arguments
RECURSIVE applied_faithfully(_, _, _, _)
applied_faithfully(lg, queue, n, uris) ==
    IF n = 0 THEN lg
    ELSE LET before == applied_faithfully(lg, queue, n - 1, uris)
         IN  CallEvent(before, queue[n].event, faithful_args(queue[n].given, uris)).log

\* C24: process_queue calls each queued event with, at position i, the
\* value a_i that to_queue was given when a_i is not callable and the result
\* of calling a_i at process_queue time when it is a closure; to_queue
\* itself evaluates nothing and appends no event.
C24_DeferredArgumentsFaithful ==
    [][/\ (last'.op = "process_queue" /\ last'.res = "ok") =>
             log'.graph = applied_faithfully(log, log.queue, Len(log.queue),
                                             all_uris(order, meta_resources)).graph
       /\ (last'.op = "to_queue") =>
             log'.graph = log.graph /\ log'.current_id = log.current_id]_vars

\* the events of graph h that graph g does not hold
NewEvents(g, h) == EventIds(h) \ EventIds(g)

\* C25: store_metadata_resource on an unlocked Sip: a resource without
\* pending changes writes no file and changes neither manifest nor event
\* log; with pending changes and a successful write the manifest has an
\* entry under the metadata filename and one metadata_modification event is
\* appended per declared source, or one about the resource itself when it
\* declares none; a failed write changes neither manifest nor event log and
\* the resource keeps its pending changes.
C25_StoreMetadataResource ==
    [][(last'.op = "store_metadata_resource" /\ ~log.is_locked) =>
          LET id == last'.arg
              r == meta_resources[id]
              fn == make_filename_from_id(id)
              new == NewEvents(log.graph, log'.graph)
              results == IF r.metadata_sources = {} THEN {description_uri(id)}
                         ELSE r.metadata_sources
          IN  /\ ~r.is_modified =>
                    /\ last'.wrote = {} /\ disk' = disk
                    /\ manifest' = manifest /\ log' = log
              /\ (r.is_modified /\ fn \in last'.wrote) =>
                    /\ fn \in DOMAIN manifest'.entries
                    /\ ~meta_resources'[id].is_modified
                    /\ SameEvents(log.graph, log'.graph)
                    /\ Cardinality(new) = Cardinality(results)
                    /\ \A n \in new :
                          /\ ObjectsOf(log'.graph, n, "eventType") = {"mem"}
                          /\ ObjectsOf(log'.graph, n, "eror:sou") = {description_uri(id)}
                          /\ Cardinality(ObjectsOf(log'.graph, n, "prov:generated")) = 1
                    /\ UNION {ObjectsOf(log'.graph, n, "prov:generated") : n \in new} = results
              /\ (r.is_modified /\ fn \notin last'.wrote) =>
                    /\ fn \in last'.failed /\ disk' = disk
                    /\ manifest' = manifest /\ log' = log
                    /\ meta_resources'[id].is_modified]_vars

\* a resource with two declared sources was stored:
\* the log holds one metadata_modification event for each source
C25_Witness ==
    /\ last.op = "store_metadata_resource" /\ make_filename_from_id("1") \in last.wrote
    /\ meta_resources["1"].metadata_sources = MetadataSources
    /\ EventsOfType(log.graph, "mem") = {1, 2}
    /\ make_filename_from_id("1") \in DOMAIN manifest.entries

\* C26: store_referenced_file_if_missing changes nothing when the resource
\* has no referenced file or the destination file is already in the
\* package; otherwise it copies the file, adds one manifest entry under the
\* package filename and appends exactly one filename_change event, so that
\* repeated calls copy once and leave one entry and one event.
C26_StoreReferencedFileOnce ==
    [][(last'.op = "store_referenced_file_if_missing") =>
          LET id == last'.arg
              r == meta_resources[id]
              dest == referenced_file_filename(id)
              new == NewEvents(log.graph, log'.graph)
          IN  IF ~r.has_referenced_file \/ dest \in DOMAIN data_files
              THEN /\ last'.copied = {} /\ disk' = disk
                   /\ manifest' = manifest /\ log' = log
              ELSE /\ last'.copied = {dest}
                   /\ DOMAIN data_files' = DOMAIN data_files \cup {dest}
                   /\ data_files'[dest] = source_bytes(id)
                   /\ DOMAIN manifest'.entries = DOMAIN manifest.entries \cup {dest}
                   /\ SameEvents(log.graph, log'.graph)
                   /\ Cardinality(new) = 1
                   /\ \A n \in new : ObjectsOf(log'.graph, n, "eventType") = {"fil"}]_vars

\* C27: validate_referenced_files on an unlocked Sip appends exactly one
\* fixity_check event for each resource that has a referenced file and none
\* for the others, with outcome success exactly when the hash of the file
\* equals the recorded checksum; it never raises, so every resource gets
\* its event, and no manifest entry and no file is changed.
C27_FixityCheckPerReferencedFile ==
    [][(last'.op = "validate_referenced_files" /\ ~log.is_locked) =>
          LET ids == with_referenced_files(order, meta_resources)
              matches(id) ==
                  /\ referenced_file_filename(id) \in DOMAIN data_files
                  /\ calculate_md5(data_files[referenced_file_filename(id)])
                        = meta_resources[id].checksum
          IN  /\ last'.res = "ok"
              /\ SameEvents(log.graph, log'.graph)
              /\ NewEvents(log.graph, log'.graph)
                    = (log.current_id + 1)..(log.current_id + Len(ids))
              /\ \A i \in 1..Len(ids) :
                    /\ ObjectsOf(log'.graph, log.current_id + i, "eventType") = {"fix"}
                    /\ ObjectsOf(log'.graph, log.current_id + i, "eror:sou")
                          = {referenced_file_uri(ids[i])}
                    /\ ObjectsOf(log'.graph, log.current_id + i, "outcome")
                          = {IF matches(ids[i]) THEN "suc" ELSE "fail"}
              /\ disk' = disk /\ manifest' = manifest]_vars

\* the object that is written to file f has pending changes
StillModified(f, rs, man, lg) ==
    IF f = manifest_filename THEN man.is_modified
    ELSE IF f = eventlog_filename THEN lg.is_modified
    ELSE \E id \in DOMAIN rs : make_filename_from_id(id) = f /\ rs[id].is_modified

\* C28: a write of a metadata file, the manifest file or the event-log file
\* that fails with an I/O error does not make the save call raise, leaves
\* the object modified and is_locked as it was, and the same call made
\* again without the fault writes the file.
C28_WriteFailureNotFatal ==
    [][(last'.op \in {"save", "store_metadata_resource", "events_save", "manifest_save"}) =>
          /\ last'.res # "io_error"
          /\ \A f \in last'.failed : StillModified(f, meta_resources', manifest', log')
          /\ (last'.failed # {}) => (log'.is_locked = log.is_locked)
          /\ (/\ last.op = last'.op /\ last.arg = last'.arg /\ last.failed # {}
              /\ last'.res = "ok" /\ last'.failed = {}) => last.failed \subseteq last'.wrote]_vars

\* C29: every event in the log has at least one subject: no call on a Sip
\* appends an event with an empty subject list, lock() on a Sip without
\* resources included.
C29_EveryEventHasSubject ==
    pc = "sip" => \A n \in EventIds(log.graph) : ObjectsOf(log.graph, n, "eror:sou") # {}

\* C30: is_valid of a Manifest is true only if the manifest was loaded from
\* its file or a validate() has succeeded on it: a manifest from create_new
\* and one from create_from_directory is not valid, adding or updating
\* entries and saving do not make it valid, a successful validate() makes it
\* valid and a failed validate() does not.
C30_ValidOnlyAfterLoadOrValidate ==
    [][(pc' = "index") =>
          /\ (last'.op = "open_index") => (manifest'.is_valid <=> manifest_file.exists)
          /\ (last'.op = "create_from_directory") => ~manifest'.is_valid
          /\ (last'.op \in {"add_entry", "update_entry", "manifest_save"}) =>
                (manifest'.is_valid => manifest.is_valid)
          /\ (last'.op = "validate" /\ last'.res = "ok") => manifest'.is_valid
          /\ (last'.op = "validate" /\ last'.res # "ok") =>
                (manifest'.is_valid => manifest.is_valid)]_vars

\* every id the manager has returned it returned once, the last generated
\* id is current_id, and get_count counts the ids returned
HandedOutOnce(m) ==
    /\ \A i, j \in 1..Len(m.returned) : i # j => m.returned[i] # m.returned[j]
    /\ get_count(m) = Cardinality(Range(m.returned))
    /\ m.used_ids = Range(m.returned)

\* C31: an IDManager hands out each id at most once since creation or the
\* last reset: a successful generate_id or register_id returns an id that
\* no earlier successful call returned; generate_id returns strictly
\* increasing values and skips registered ids; register_id of a used id
\* raises ValueError and changes nothing; get_count is the number of
\* distinct ids handed out.
C31_IdsHandedOutOnce ==
    [][LET m == objects.id_manager
           n == objects'.id_manager
       IN  /\ HandedOutOnce(n)
           /\ (last'.op = "generate_id") =>
                 /\ n.returned = Append(m.returned, n.current_id)
                 /\ n.current_id \notin Range(m.returned)
                 /\ \A i \in 1..Len(m.returned) :
                       (m.returned[i] = m.current_id) => n.current_id > m.returned[i]
                 /\ n.current_id > m.current_id
           /\ (last'.op = "register_id") =>
                 IF last'.applied \in Range(m.returned)
                 THEN last'.res = "value_error" /\ n = m
                 ELSE last'.res = "ok" /\ n.returned = Append(m.returned, last'.applied)]_vars

\* ids 1 and 3 were generated around a registered 2, and 2 was then refused
C31_Witness ==
    /\ objects.id_manager.returned = <<1, 2, 3>>
    /\ objects.id_manager.current_id = 3
    /\ last.op = "register_id" /\ last.res = "value_error" /\ last.applied = 2

\* C32: Config is a singleton with two states: get_instance before
\* initialize raises RuntimeError; initialize while initialized raises
\* RuntimeError and keeps the instance; constructing Config while an instance
\* exists raises RuntimeError; between an initialize and the next reset
\* get_instance returns the object initialize returned; after reset
\* initialize succeeds again.
C32_ConfigSingleton ==
    [][LET c == objects.config
           d == objects'.config
       IN  /\ (last'.op = "get_instance") =>
                 IF c._instance = 0 THEN last'.res = "runtime_error"
                 ELSE last'.res = "ok" /\ last'.applied = c.handed
           /\ (last'.op = "initialize") =>
                 IF c._instance # 0
                 THEN last'.res = "runtime_error" /\ d = c
                 ELSE \/ last'.res = "file_not_found" /\ d = c
                      \/ /\ last'.res = "ok" /\ last'.applied > c.made
                         /\ d._instance = last'.applied
           /\ (last'.op = "construct" /\ c._instance # 0) =>
                 last'.res = "runtime_error" /\ d = c
           /\ (last'.op = "config_reset") => d._instance = 0
           /\ (last'.op \notin {"initialize", "config_reset"}) => d._instance = c._instance]_vars

\* after a reset a second initialize made a new instance, and get_instance
\* returned that one
C32_Witness ==
    /\ last.op = "get_instance" /\ last.res = "ok"
    /\ last.applied = 2 /\ objects.config._instance = 2 /\ objects.config.made = 2

\* C33: a loaded setting cannot be modified: an assignment to it on the
\* Config instance raises ValueError, and the setting reads as before.
C33_ConfigImmutable ==
    [][(last'.op = "assign") =>
          /\ last'.res = "value_error"
          /\ \A name \in DOMAIN LoadedSettings :
                Config_getattr(objects'.config, name) = LoadedSettings[name]]_vars

\* C34: concept resolution is cached: constructing the ConceptResolver of a
\* vocabulary again gives the same object with its cache; once get_concept
\* has resolved a term, a later get_concept of the term returns the same
\* Concept without a query; once get_value has fetched the value of a
\* predicate, a later get_value returns it without a query.
C34_ResolutionIsCached ==
    [][LET R == objects.resolver
           S == objects'.resolver
       IN  /\ (last'.op = "concept_resolver" /\ last'.arg \in DOMAIN R._instances) => S = R
           /\ (last'.op = "get_concept") =>
                 /\ \A v \in DOMAIN R._instances : \A t \in DOMAIN R._instances[v].cache :
                       /\ t \in DOMAIN S._instances[v].cache
                       /\ S._instances[v].cache[t] = R._instances[v].cache[t]
                 /\ (last'.id \in DOMAIN R._instances[last'.arg].cache) =>
                       /\ last'.applied = R._instances[last'.arg].cache[last'.id]
                       /\ S = R
                 /\ (last'.applied # 0) =>
                       S._instances[last'.arg].cache[last'.id] = last'.applied
           /\ (last'.op = "get_value") =>
                 /\ (last'.arg \in DOMAIN R.concepts[last'.applied].cache) =>
                       /\ last'.id = R.concepts[last'.applied].cache[last'.arg]
                       /\ S = R
                 /\ (last'.id # "None") =>
                       S.concepts[last'.applied].cache[last'.arg] = last'.id
           /\ \A i \in 1..Len(R.concepts) :
                 /\ S.concepts[i].uri = R.concepts[i].uri
                 /\ \A p \in DOMAIN R.concepts[i].cache :
                       /\ p \in DOMAIN S.concepts[i].cache
                       /\ S.concepts[i].cache[p] = R.concepts[i].cache[p]]_vars

\* after one query for the concept and one for its value, a get_value
\* returned the cached value although the endpoint would now answer another
C34_Witness ==
    /\ last.op = "get_value" /\ last.id = "Gemeente" /\ last.applied = 1
    /\ last.given = <<"Waterschap">>
    /\ objects.resolver.queries = 2
    /\ objects.resolver._instances["actor"].cache = [t \in {"G0321"} |-> 1]
    /\ objects.resolver.concepts[1].cache = [p \in Predicates |-> "Gemeente"]

\* the last events of graph g, which ends at event cur, are the events of
\* the calls of old's queue, in queue order
QueuedEventsIn(old, g, cur) ==
    \A i \in 1..Len(old.queue) :
       ObjectsOf(g, cur - Len(old.queue) + i, "eventType") = {EventTypeOf(old.queue[i].event)}

\* this step is a Sip.save that wrote the event log or the manifest
SaveWroteIndex ==
    last'.op = "save" /\ last'.wrote \cap {eventlog_filename, manifest_filename} # {}

\* C35: Sip.save writes the metadata files and copies the missing referenced
\* files, then flushes the queue, then writes the event log and the manifest:
\* when it writes either index file, every file with a manifest entry is in
\* the package directory and every event queued before the save is in the
\* event log that this save writes.
C35_SaveOrder ==
    [][SaveWroteIndex =>
          /\ \A f \in DOMAIN manifest'.entries : f \in walk'
          /\ log'.queue = <<>>
          /\ (log.queue # <<>>) =>
                /\ eventlog_filename \in last'.wrote
                /\ QueuedEventsIn(log, parse(eventlog_file'.data), log'.current_id)]_vars

\* C35 with its exception: when Sip.save writes either index file, every file
\* with a manifest entry is in the package directory, the queue is flushed
\* and every event queued before the save is in the event log; the event log
\* file that this save writes holds them all, but a save whose write of the
\* event log fails goes on to write the manifest without them on disk.
C35_SaveOrderUnlessLogWriteFails ==
    [][SaveWroteIndex =>
          /\ \A f \in DOMAIN manifest'.entries : f \in walk'
          /\ log'.queue = <<>>
          /\ QueuedEventsIn(log, log'.graph, log'.current_id)
          /\ (eventlog_filename \in last'.wrote) => parse(eventlog_file'.data) = log'.graph
          /\ (log.queue # <<>>) =>
                \/ eventlog_filename \in last'.wrote
                \/ eventlog_filename \in last'.failed]_vars

\* a save has written a metadata file, copied its referenced file, flushed a
\* queued ingestion_start and written the event log, which ends with that
\* event, and the manifest
C35_Witness ==
    /\ last.op = "save" /\ last.res = "ok"
    /\ last.wrote = {make_filename_from_id("1"), eventlog_filename, manifest_filename}
    /\ last.copied = {referenced_file_filename("1")}
    /\ log.queue = <<>> /\ log.current_id >= 3
    /\ ObjectsOf(parse(eventlog_file.data), log.current_id, "eventType") = {"ins"}
    /\ ObjectsOf(parse(eventlog_file.data), log.current_id - 1, "eventType") = {"fil"}

\* C36: create_meta_resource never registers a resource under an id that a
\* resource of the Sip's map already has, which would drop the earlier
\* resource from the map: not with an id of the caller, and not with an id
\* of the class-level counter after resources were registered or loaded.
C36_NoSilentReplacement ==
    [][(last'.op = "create_meta_resource" /\ last'.res = "ok") =>
          LET new_id == IF last'.arg = "" THEN ToString(counter') ELSE last'.arg
          IN  new_id \notin DOMAIN meta_resources]_vars

\* the events of the log that name this uri as their source
EventsAbout(uri) == {t.s.id : t \in {u \in log.graph : u.p = "eror:sou" /\ u.o = uri}}

\* C37: a queued call is applied at most once, also when process_queue
\* raises at a later call of the queue and the queue is flushed again by
\* process_queue or by Sip.save: of the calls that were queued, each about
\* another resource, no two events of the log are about the same resource.
C37_QueuedCallAppliedAtMostOnce ==
    \A id \in AllIds : Cardinality(EventsAbout(description_uri(id))) <= 1

\* C38: Manifest.validate is read-only: whether it returns or raises, the
\* entries and is_modified of the manifest, the files of the directory and
\* the list of file names that the caller passed are what they were before
\* the call, so the list does not grow from call to call.
C38_ValidateIsReadOnly ==
    [][(last'.op = "validate_list") =>
          /\ manifest' = manifest
          /\ disk' = disk
          /\ objects'.ignore_list = objects.ignore_list]_vars
====
